---- MODULE Spec2Model ----
(***************************************************************************)
(* Hybrid Dense Reranker: corpus loader, relevance-oracle client, score    *)
(* fusion and the search pipeline of HybridReranker.                       *)
(*                                                                         *)
(* Text is a sequence of character codes: 0 is the space, 1..9 are         *)
(* letters, 10 is a digit.  Scores are exact rationals held as integers    *)
(* in units of 1/Unit (component scores) and 1/(20*Unit) (fused score).    *)
(***************************************************************************)
EXTENDS Integers, Sequences, FiniteSets, TLC

VARIABLES
    env,          \* configuration and file system: CORPUS_SOURCE, CHUNK_SIZE, CHUNK_OVERLAP, data file
    phase,        \* the constructor's position "new", "loaded", "fitted", "embedded", "built" or "failed"; or which component is used on its own
    corpus,       \* HybridReranker.corpus
    fitted,       \* EmbeddingManager.fitted
    indexSize,    \* number of vectors held by the FAISS index (index.ntotal)
    pc,           \* position of the search handler: "idle" | "scoring" | "done"
    query,        \* search argument query
    k,            \* search argument k
    retrieved,    \* search local: retrieved
    enhanced,     \* search local: enhanced_results
    results,      \* value returned by the last completed search
    oracleCalls,  \* client.messages.create calls made by the search in progress
    degraded,     \* candidates of this search whose context request raised
    loadCall,     \* last direct call of a loader function and its outcome
    oracleCall,   \* last direct call of a ClaudeClient method and its outcome
    fusionCall,   \* last direct call of calculate_enhanced_score and its outcome
    request,      \* body of the /rag-query request being handled (None: no such request)
    response,     \* value returned by search_with_context or rag_query to its caller
    contextCall,  \* get_chunk_context call that has returned: its arguments and its value
    embedCall,    \* last direct call of an EmbeddingManager method and its outcome
    fitLog,       \* outcomes of the fit calls made on the EmbeddingManager, in order
    frames,       \* locals of the search calls running concurrently, one frame per call
    inputs,       \* what each concurrent call was given: query, k, index answer, oracle answers
    instances,    \* the HybridReranker objects of one process, and which of them acted last
    similarityCall \* last direct call of calculate_semantic_similarity and its value

vars == <<env, phase, corpus, fitted, indexSize, pc, query, k, retrieved,
          enhanced, results, oracleCalls, degraded, loadCall, oracleCall, fusionCall,
          request, response, contextCall, embedCall, fitLog, frames, inputs,
          instances, similarityCall>>

apiVars    == <<request, response, contextCall>>
embedVars  == <<embedCall, fitLog>>
threadVars == <<frames, inputs>>
otherVars  == <<instances, similarityCall>>

None == [none |-> TRUE]

----------------------------------------------------------------------------
(* Text helpers (Python str semantics)                                     *)

SP == 0
DIGIT == 10

RECURSIVE LStrip(_)
LStrip(s) == IF s # <<>> /\ Head(s) = SP THEN LStrip(Tail(s)) ELSE s

RECURSIVE RStrip(_)
RStrip(s) == IF s # <<>> /\ s[Len(s)] = SP THEN RStrip(SubSeq(s, 1, Len(s) - 1)) ELSE s

\* str.strip()
Strip(s) == RStrip(LStrip(s))

\* s[-n:]
PySuffix(s, n) == IF n <= 0 \/ n >= Len(s) THEN s ELSE SubSeq(s, Len(s) - n + 1, Len(s))

\* s[:n]
PyPrefix(s, n) == IF n >= Len(s) THEN s ELSE SubSeq(s, 1, n)

RECURSIVE Join(_)
\* " ".join(words)
Join(ws) == IF ws = <<>> THEN <<>>
            ELSE IF Len(ws) = 1 THEN ws[1]
            ELSE ws[1] \o <<SP>> \o Join(Tail(ws))

RECURSIVE SplitFrom(_, _, _)
\* The words of s from position i on, after the words acc: one word per step
SplitFrom(s, i, acc) ==
    IF \A j \in i..Len(s) : s[j] = SP THEN acc
    ELSE LET first == CHOOSE j \in i..Len(s) :
                          s[j] # SP /\ \A m \in i..(j - 1) : s[m] = SP
             last  == CHOOSE e \in first..Len(s) :
                          /\ (e = Len(s) \/ s[e + 1] = SP)
                          /\ \A m \in first..e : s[m] # SP
         IN SplitFrom(s, last + 1, Append(acc, SubSeq(s, first, last)))

\* str.split(): the maximal runs of non-space characters
Split(s) == SplitFrom(s, 1, <<>>)

Range(s) == {s[i] : i \in 1..Len(s)}

Min(a, b) == IF a <= b THEN a ELSE b
Max(a, b) == IF a >= b THEN a ELSE b

----------------------------------------------------------------------------
(* Sample vocabulary                                                       *)

wNephi == <<1, 2, 3>>
wLord  == <<4, 5, 6>>
wLand  == <<2, 1, 4>>
wLands == <<2, 1, 4, 9>>
wThe   == <<7, 7, 7>>
wGo    == <<8, 8>>
wRisk  == <<5, 3, 1>>
wLegal == <<6, 2, 5>>
wAudit == <<3, 6, 4>>

STAR   == 11

----------------------------------------------------------------------------
(* Corpus loader: corpus.py                                                *)

MinLineLen  == 30
MinVerseLen == 20
MinLooseLen == 50

\* One stripped line of the data file with the facts the two parsers test:
\*   text      the line after line.strip()
\*   numLen    length of the leading "digits + whitespace" prefix (0: none)
\*   upper     the character after that prefix is in [A-Z]
\*   star, bracket, chapter   line.startswith('*'), ('['), ('Chapter')
\*   heading   the line matches ^1 Nephi \d+$
\*   allcaps   line.isupper()
\*   nephi, lord, cameToPass  'Nephi' / 'Lord' / 'came to pass' in line
MkLine(text, numLen, upper, star, bracket, chapter, heading, allcaps, nephi, lord, cameToPass) ==
    [text |-> text, numLen |-> numLen, upper |-> upper, star |-> star,
     bracket |-> bracket, chapter |-> chapter, heading |-> heading,
     allcaps |-> allcaps, nephi |-> nephi, lord |-> lord, cameToPass |-> cameToPass]

VerseA == Join(<<wNephi, wLand, wThe, wLord, wLands, wGo, wNephi, wLand>>)
VerseB == Join(<<wLord, wThe, wLands, wLands, wGo, wLand, wLord, wLord, wLand>>)
VerseC == Join(<<wRisk, wLegal, wAudit, wRisk, wLegal, wAudit, wRisk, wLegal,
                 wAudit, wRisk, wLegal, wAudit, wLands, wLands>>)

LineVerseA == MkLine(<<DIGIT, SP>> \o VerseA, 2, TRUE, FALSE, FALSE, FALSE, FALSE, FALSE, TRUE, TRUE, FALSE)
LineVerseB == MkLine(<<DIGIT, SP>> \o VerseB, 2, TRUE, FALSE, FALSE, FALSE, FALSE, FALSE, FALSE, TRUE, FALSE)
LineVerseC == MkLine(<<DIGIT, DIGIT, SP>> \o VerseC, 3, TRUE, FALSE, FALSE, FALSE, FALSE, FALSE, FALSE, FALSE, FALSE)
\* "2 Nephi go land": numbered and capitalised, but too short for either parser
LineShortVerse == MkLine(<<DIGIT, SP>> \o Join(<<wNephi, wGo, wLand>>), 2, TRUE,
                         FALSE, FALSE, FALSE, FALSE, FALSE, TRUE, FALSE, FALSE)
\* "1 Nephi 1": a book heading
LineHeading == MkLine(<<DIGIT, SP>> \o wNephi \o <<SP, DIGIT>>, 2, TRUE,
                      FALSE, FALSE, FALSE, TRUE, FALSE, TRUE, FALSE, FALSE)
\* unnumbered prose of 55 characters naming Nephi
LineProse == MkLine(Join(<<wThe, wNephi, wGo, wLand, wThe, wLands, wNephi, wThe,
                           wLand, wGo, wThe, wLands, wNephi, wLand>>), 0, FALSE,
                    FALSE, FALSE, FALSE, FALSE, FALSE, TRUE, FALSE, FALSE)
\* "* the Lord go": a short markup line that names the Lord
LineStarLord == MkLine(<<STAR, SP>> \o Join(<<wThe, wLord, wGo>>), 0, FALSE,
                       TRUE, FALSE, FALSE, FALSE, FALSE, FALSE, TRUE, FALSE)
\* unnumbered prose of 55 characters with none of the keywords
LinePlain == MkLine(Join(<<wThe, wLand, wGo, wLand, wThe, wLands, wLand, wThe,
                           wLand, wGo, wThe, wLands, wLand, wLand>>), 0, FALSE,
                    FALSE, FALSE, FALSE, FALSE, FALSE, FALSE, FALSE, FALSE)
LineBlank == MkLine(<<>>, 0, FALSE, FALSE, FALSE, FALSE, FALSE, FALSE, FALSE, FALSE, FALSE)

\* re.match(r'^\s*\d+\s+[A-Z]', line) and len(line) > 30
PrimaryMatch(line) ==
    /\ line.numLen > 0
    /\ line.upper
    /\ Len(line.text) > MinLineLen

\* re.search(r'^\s*\d+\s+(.+)', line).group(1).strip()
VerseContent(line) == Strip(SubSeq(line.text, line.numLen + 1, Len(line.text)))

RECURSIVE ParsePrimary(_)
ParsePrimary(lines) ==
    IF lines = <<>> THEN <<>>
    ELSE LET line == Head(lines)
             rest == ParsePrimary(Tail(lines))
         IN IF PrimaryMatch(line)
                /\ VerseContent(line) # <<>>
                /\ Len(VerseContent(line)) > MinVerseLen
            THEN <<VerseContent(line)>> \o rest
            ELSE rest

\* The condition of the alternative parser as Python groups it:
\* (A and ... and 'Nephi' in line) or 'Lord' in line or 'came to pass' in line
LooseMatch(line) ==
    \/ /\ Len(line.text) > MinLooseLen
       /\ ~line.star
       /\ ~line.bracket
       /\ ~line.chapter
       /\ ~line.heading
       /\ ~line.allcaps
       /\ line.nephi
    \/ line.lord
    \/ line.cameToPass

RECURSIVE ParseLoose(_)
ParseLoose(lines) ==
    IF lines = <<>> THEN <<>>
    ELSE IF LooseMatch(Head(lines))
         THEN <<Head(lines).text>> \o ParseLoose(Tail(lines))
         ELSE ParseLoose(Tail(lines))

ParseVerses(lines) ==
    IF Len(ParsePrimary(lines)) = 0 THEN ParseLoose(lines) ELSE ParsePrimary(lines)

MormonDoc(chunk_id, content) ==
    [title |-> <<"Book of Mormon - Chunk", chunk_id>>,
     content |-> content,
     chunk_id |-> chunk_id,
     source |-> "mormon"]

\* chunk_id is not advanced when a chunk is closed
ChunkStep_SameId(st, verse, size, overlap) ==
    IF Len(st.current) + Len(verse) + 1 > size /\ st.current # <<>>
    THEN [corpus   |-> Append(st.corpus, MormonDoc(st.chunk_id, Strip(st.current))),
          chunk_id |-> st.chunk_id,
          current  |-> IF overlap > 0 /\ Len(st.current) > overlap
                       THEN PySuffix(st.current, overlap) \o <<SP>> \o verse
                       ELSE verse]
    ELSE [corpus   |-> st.corpus,
          chunk_id |-> st.chunk_id,
          current  |-> IF st.current # <<>>
                       THEN st.current \o <<SP>> \o verse
                       ELSE verse]

\* The closed chunk is not dropped from current_chunk: the next chunk starts with all of it
ChunkStep_NoReset(st, verse, size, overlap) ==
    IF Len(st.current) + Len(verse) + 1 > size /\ st.current # <<>>
    THEN [corpus   |-> Append(st.corpus, MormonDoc(st.chunk_id, Strip(st.current))),
          chunk_id |-> st.chunk_id + 1,
          current  |-> st.current \o <<SP>> \o verse]
    ELSE [corpus   |-> st.corpus,
          chunk_id |-> st.chunk_id,
          current  |-> IF st.current # <<>>
                       THEN st.current \o <<SP>> \o verse
                       ELSE verse]

\* The verse that closes a chunk is not carried into the next one
ChunkStep_DropOnClose(st, verse, size, overlap) ==
    IF Len(st.current) + Len(verse) + 1 > size /\ st.current # <<>>
    THEN [corpus   |-> Append(st.corpus, MormonDoc(st.chunk_id, Strip(st.current))),
          chunk_id |-> st.chunk_id + 1,
          current  |-> IF overlap > 0 /\ Len(st.current) > overlap
                       THEN PySuffix(st.current, overlap)
                       ELSE <<>>]
    ELSE [corpus   |-> st.corpus,
          chunk_id |-> st.chunk_id,
          current  |-> IF st.current # <<>>
                       THEN st.current \o <<SP>> \o verse
                       ELSE verse]

\* A new chunk always starts with the verse alone
ChunkStep_NoOverlap(st, verse, size, overlap) ==
    IF Len(st.current) + Len(verse) + 1 > size /\ st.current # <<>>
    THEN [corpus   |-> Append(st.corpus, MormonDoc(st.chunk_id, Strip(st.current))),
          chunk_id |-> st.chunk_id + 1,
          current  |-> verse]
    ELSE [corpus   |-> st.corpus,
          chunk_id |-> st.chunk_id,
          current  |-> IF st.current # <<>>
                       THEN st.current \o <<SP>> \o verse
                       ELSE verse]

\* One iteration of "for verse in verses" over (corpus, current_chunk, chunk_id)
ChunkStep(st, verse, size, overlap) ==
    IF Len(st.current) + Len(verse) + 1 > size /\ st.current # <<>>
    THEN [corpus   |-> Append(st.corpus, MormonDoc(st.chunk_id, Strip(st.current))),
          chunk_id |-> st.chunk_id + 1,
          current  |-> IF overlap > 0 /\ Len(st.current) > overlap
                       THEN PySuffix(st.current, overlap) \o <<SP>> \o verse
                       ELSE verse]
    ELSE [corpus   |-> st.corpus,
          chunk_id |-> st.chunk_id,
          current  |-> IF st.current # <<>>
                       THEN st.current \o <<SP>> \o verse
                       ELSE verse]

RECURSIVE ChunkLoop(_, _, _, _)
ChunkLoop(st, verses, size, overlap) ==
    IF verses = <<>> THEN st
    ELSE ChunkLoop(ChunkStep(st, Head(verses), size, overlap), Tail(verses), size, overlap)

\* "Create chunks from verses" up to "Add the last chunk if it has content"
ChunkVerses(verses, size, overlap) ==
    LET st == ChunkLoop([corpus |-> <<>>, current |-> <<>>, chunk_id |-> 1],
                        verses, size, overlap)
    IN IF Strip(st.current) # <<>>
       THEN Append(st.corpus, MormonDoc(st.chunk_id, Strip(st.current)))
       ELSE st.corpus

DefaultDoc(chunk_id, title, content) ==
    [title |-> <<title, 0>>, content |-> content, chunk_id |-> chunk_id, source |-> "default"]

\* The five built-in documents; each content is a short stand-in for the prose
get_default_corpus ==
    << DefaultDoc(1, "Legal Risk Assessment - Contract Liability",
                  Join(<<wLegal, wRisk, wThe, wLegal, wLands>>)),
       DefaultDoc(2, "Cybersecurity Policy - Authentication Requirements",
                  Join(<<wRisk, wThe, wGo, wLand>>)),
       DefaultDoc(3, "Financial Performance Analysis - Q3 2023",
                  Join(<<wLegal, wLands, wThe, wLand>>)),
       DefaultDoc(4, "Risk Management Framework - Enterprise Security",
                  Join(<<wRisk, wAudit, wRisk>>)),
       DefaultDoc(5, "Compliance Audit Results - Data Protection",
                  Join(<<wAudit, wThe, wLegal>>)) >>

\* The outcome of a call: the exception that left it ("none": it returned) and its value
Returned(v) == [exc |-> "none", value |-> v]
Raised(e)   == [exc |-> e, value |-> <<>>]

\* open(data_path).read(): the data file is absent, unreadable, or holds lines
OpenAndRead(file) ==
    IF file.state = "missing" THEN Raised("FileNotFoundError")
    ELSE IF file.state = "unreadable" THEN Raised("OSError")
    ELSE Returned(file.lines)

\* The body of the try block once the file is read
ParseAndChunk(lines, size, overlap) ==
    LET chunks == ChunkVerses(ParseVerses(lines), size, overlap)
    IN IF Len(chunks) = 0 THEN Returned(get_default_corpus) ELSE Returned(chunks)

\* The handlers re-raise instead of falling back
HandleLoadError_Reraise(e) == Raised(e)

\* The handlers return an empty list
HandleLoadError_Empty(e) == Returned(<<>>)

\* except FileNotFoundError / except Exception
HandleLoadError(e) == Returned(get_default_corpus)

load_mormon_corpus(file, size, overlap) ==
    LET rd == OpenAndRead(file)
    IN IF rd.exc # "none" THEN HandleLoadError(rd.exc)
       ELSE ParseAndChunk(rd.value, size, overlap)

\* The loader of the single-file application (src/app.py): the same parsing and
\* chunking, documents of title and content only, and its own three defaults
LegacyDoc(d) == [title |-> d.title, content |-> d.content]

legacy_get_default_corpus ==
    << [title |-> <<"Legal Risk Report - 2023", 0>>, content |-> Join(<<wLegal, wRisk, wThe>>)],
       [title |-> <<"Security Memo", 0>>, content |-> Join(<<wRisk, wGo, wLand>>)],
       [title |-> <<"Financial Summary", 0>>, content |-> Join(<<wLegal, wLands>>)] >>

legacy_load_mormon_corpus(file, size, overlap) ==
    LET rd == OpenAndRead(file)
        chunks == ChunkVerses(ParseVerses(rd.value), size, overlap)
    IN IF rd.exc # "none" THEN Returned(legacy_get_default_corpus)
       ELSE IF Len(chunks) = 0 THEN Returned(legacy_get_default_corpus)
       ELSE Returned([i \in 1..Len(chunks) |-> LegacyDoc(chunks[i])])

\* str.lower() on the selectors of the model
Lower(s) == IF s \in {"mormon", "Mormon", "MORMON"} THEN "mormon" ELSE s

load_corpus(e) ==
    IF Lower(e.source) = "mormon"
    THEN load_mormon_corpus(e.file, e.chunkSize, e.chunkOverlap)
    ELSE Returned(get_default_corpus)

----------------------------------------------------------------------------
(* Scores                                                                  *)

\* One unit of a component score is 1/Unit; Unit is a multiple of 1..8 and of 10
Unit == 2 * 2 * 2 * 3 * 5 * 7
Half == Unit \div 2
\* the fused score is held in units of 1/(20 * Unit): the weights are 4/20, 10/20, 4/20, 1/20, 1/20
FusedOne == 20 * Unit

----------------------------------------------------------------------------
(* Text preprocessor: text_processor.py                                    *)

stop_words     == {wThe, wGo}
preserve_terms == {wNephi, wLord, wRisk, wLegal}

\* re.sub(r'[^\w\s\.\,\;\:\!\?\-]', ' ', text) on one character
CleanChar(c) == IF c = STAR THEN SP ELSE c

clean_text(text) ==
    LET norm == Join(Split(text))
    IN [i \in 1..Len(norm) |-> CleanChar(norm[i])]

\* PorterStemmer.stem on the vocabulary of the model: a plural loses its final letter
Stem(w) == IF Len(w) > 3 /\ w[Len(w)] = 9 THEN SubSeq(w, 1, Len(w) - 1) ELSE w

MinTokenLen == 3

\* The keyword one token contributes, as a set of at most one element
KeywordOf(token) ==
    IF Len(token) < MinTokenLen \/ token \in stop_words THEN {}
    ELSE IF token \in preserve_terms THEN {token}
    ELSE IF Len(Stem(token)) >= MinTokenLen THEN {Stem(token)}
    ELSE {}

extract_keywords(text) ==
    IF text = <<>> THEN {}
    ELSE UNION {KeywordOf(t) : t \in Range(Split(clean_text(text)))}

\* The boost is not capped
Boost_Uncapped(m) == (m * Unit) \div 10

\* min(0.3, len(important_matches) * 0.1)
Boost(m) == Min((3 * Unit) \div 10, (m * Unit) \div 10)

\* The shared keywords are counted against the first text's keywords only
calculate_semantic_similarity_OverFirst(text1, text2) ==
    IF text1 = <<>> \/ text2 = <<>> THEN 0
    ELSE LET keywords1 == extract_keywords(text1)
             keywords2 == extract_keywords(text2)
             intersection == keywords1 \cap keywords2
         IN IF keywords1 = {} \/ keywords2 = {} THEN 0
            ELSE (Cardinality(intersection) * Unit) \div Cardinality(keywords1)

calculate_semantic_similarity(text1, text2) ==
    IF text1 = <<>> \/ text2 = <<>> THEN 0
    ELSE LET keywords1 == extract_keywords(text1)
             keywords2 == extract_keywords(text2)
             intersection == keywords1 \cap keywords2
             union == keywords1 \cup keywords2
             jaccard_sim == (Cardinality(intersection) * Unit) \div Cardinality(union)
             important_matches == intersection \cap preserve_terms
         IN IF keywords1 = {} \/ keywords2 = {} THEN 0
            ELSE IF important_matches # {}
                 THEN Min(Unit, jaccard_sim + Boost(Cardinality(important_matches)))
                 ELSE jaccard_sim

----------------------------------------------------------------------------
(* Relevance oracle client: claude_client.py                               *)

\* What one client.messages.create call does: it raises, or it answers a text of
\* which the parsers see the number after "RELEVANCE_SCORE:" (labelled), the first
\* number anywhere in it (first; NoNum: there is none), and whether the whole
\* text is that one number (bare).
NoNum == 0 - 1

OracleRaises == [raises |-> TRUE, labelled |-> NoNum, first |-> NoNum, bare |-> FALSE]
OracleText(labelled, first, bare) ==
    [raises |-> FALSE, labelled |-> labelled, first |-> first, bare |-> bare]

\* The score is returned as parsed
Clamp01_AsParsed(score) == score

\* max(0, min(1, score))
Clamp01(score) == Max(0, Min(Unit, score))

\* The except clause lets the error through
OnOracleError_Propagate(resp) == Raised("Exception")

\* "except Exception as e: ... return 0.5" of analyze_relevance
OnOracleError(resp) == Returned(Half)

\* The first number of an unlabelled answer is clamped like a labelled one
ParseRelevance_ClampFallback(resp) ==
    IF resp.labelled # NoNum THEN Returned(Clamp01(resp.labelled))
    ELSE IF resp.first # NoNum THEN Returned(Clamp01(resp.first))
    ELSE Returned(Half)

\* The parse of a response text in analyze_relevance
ParseRelevance(resp) ==
    IF resp.labelled # NoNum THEN Returned(Clamp01(resp.labelled))
    ELSE IF resp.first # NoNum /\ resp.first <= Unit THEN Returned(Max(0, resp.first))
    ELSE Returned(Half)

analyze_relevance(resp) ==
    IF resp.raises THEN OnOracleError(resp) ELSE ParseRelevance(resp)

\* The parse of a response text in analyze_relevance_with_context
ParseContextRelevance(resp) ==
    IF resp.first # NoNum THEN Returned(Clamp01(resp.first)) ELSE Returned(Half)

\* An answer without a number is retried with the plain prompt, like a raised call
analyze_relevance_with_context_Retry(context_docs, ctxResp, plainResp) ==
    IF Len(context_docs) = 0
    THEN [out |-> analyze_relevance(plainResp), calls |-> 1, variant |-> "plain"]
    ELSE IF ctxResp.raises \/ ctxResp.first = NoNum
         THEN [out |-> analyze_relevance(plainResp), calls |-> 2, variant |-> "degraded"]
         ELSE [out |-> ParseContextRelevance(ctxResp), calls |-> 1, variant |-> "context"]

\* A raised context request is answered with the neutral score, without a second request
analyze_relevance_with_context_Neutral(context_docs, ctxResp, plainResp) ==
    IF Len(context_docs) = 0
    THEN [out |-> analyze_relevance(plainResp), calls |-> 1, variant |-> "plain"]
    ELSE IF ctxResp.raises
         THEN [out |-> Returned(Half), calls |-> 1, variant |-> "context"]
         ELSE [out |-> ParseContextRelevance(ctxResp), calls |-> 1, variant |-> "context"]

\* The outcome of analyze_relevance_with_context and the number of oracle calls it
\* made; ctxResp answers the context prompt, plainResp the plain prompt if one is sent
analyze_relevance_with_context(context_docs, ctxResp, plainResp) ==
    IF Len(context_docs) = 0
    THEN [out |-> analyze_relevance(plainResp), calls |-> 1, variant |-> "plain"]
    ELSE IF ctxResp.raises
         THEN [out |-> analyze_relevance(plainResp), calls |-> 2, variant |-> "degraded"]
         ELSE [out |-> ParseContextRelevance(ctxResp), calls |-> 1, variant |-> "context"]

\* analyze_with_claude of the single-file application (src/app.py):
\* float(text.strip()) raises unless the whole text is a number
analyze_with_claude(resp) ==
    IF resp.raises THEN Returned(Half)
    ELSE IF resp.bare THEN Returned(Clamp01(resp.first))
    ELSE Returned(Half)

----------------------------------------------------------------------------
(* Score fusion: search.py                                                 *)

ExpectedChunkWords == 50

\* min(1.0, query_words / max(1.0, content_words / 50))
LengthRatio(query_words, content_words) ==
    IF content_words <= ExpectedChunkWords
    THEN Min(Unit, query_words * Unit)
    ELSE Min(Unit, (query_words * ExpectedChunkWords * Unit) \div content_words)

\* keyword_overlap / max(1.0, len(query_keywords))
KeywordDensity(content, q) ==
    LET query_keywords == extract_keywords(q)
        content_keywords == extract_keywords(content)
    IN (Cardinality(query_keywords \cap content_keywords) * Unit)
           \div Max(1, Cardinality(query_keywords))

\* "return min(1.0, combined_score)", in units of 1/(20 * Unit)
ClampFused(combined_score) == Min(FusedOne, combined_score)

calculate_enhanced_score(tfidf_score, claude_score, semantic_score, content, q) ==
    LET normalized_tfidf == Min(Unit, tfidf_score)
        length_ratio == LengthRatio(Len(Split(q)), Len(Split(content)))
        keyword_density == KeywordDensity(content, q)
    IN ClampFused(4 * normalized_tfidf + 10 * claude_score + 4 * semantic_score
                  + length_ratio + keyword_density)

generate_relevance_explanation(claude_score, semantic_score) ==
    IF 10 * claude_score >= 8 * Unit /\ 10 * semantic_score >= 6 * Unit THEN "Highly relevant"
    ELSE IF 10 * claude_score >= 6 * Unit THEN "Very relevant"
    ELSE IF 10 * claude_score >= 4 * Unit \/ 10 * semantic_score >= 4 * Unit THEN "Moderately relevant"
    ELSE "Limited relevance"

----------------------------------------------------------------------------
(* Vector index and search: search.py                                      *)

MaxK == 2
\* Searches that would retrieve more candidates than this are not explored
MaxRetrieve == 3

\* Inner-product scores the index may report: one below 0, one above 1
TfidfScores == {0 - Unit, (6 * Unit) \div 5}

Queries == {Join(<<wLegal, wRisk, wGo>>)}

\* faiss IndexFlatIP.search(x, k) on an index of n vectors: k distinct positions
\* with their scores in descending order (positions are 0-based)
IndexSearch(n, kk) ==
    LET m == Min(kk, n)
    IN {[I |-> i, D |-> d] :
            i \in {s \in [1..m -> 0..(n - 1)] :
                       \A a, b \in 1..m : a # b => s[a] # s[b]},
            d \in {s \in [1..m -> TfidfScores] :
                       \A a \in 1..(m - 1) : s[a] >= s[a + 1]}}

\* "for i, idx in enumerate(I[0]): if idx < len(self.corpus): retrieved.append(...)"
Retrieve(corp, hit) ==
    LET all == [i \in 1..Len(hit.I) |->
                    [doc |-> IF hit.I[i] < Len(corp) THEN corp[hit.I[i] + 1] ELSE None,
                     tfidf_score |-> hit.D[i],
                     index |-> hit.I[i]]]
        valid(r) == r.index < Len(corp)
    IN SelectSeq(all, valid)

\* The candidate itself is not left out
OtherDocs_All(retr, item) == PyPrefix([i \in 1..Len(retr) |-> retr[i].doc], 2)

\* [r["doc"] for r in retrieved if r["index"] != item["index"]][:2]
OtherDocs(retr, item) ==
    LET other(r) == r.index # item.index
        rs == SelectSeq(retr, other)
    IN PyPrefix([i \in 1..Len(rs) |-> rs[i].doc], 2)

\* One entry of enhanced_results
EnhancedResult(item, claude_score, q) ==
    LET doc == item.doc
        semantic_score == calculate_semantic_similarity(doc.content, q)
    IN [title |-> doc.title,
        content |-> doc.content,
        tfidf_score |-> item.tfidf_score,
        claude_score |-> claude_score,
        semantic_score |-> semantic_score,
        combined_score |-> calculate_enhanced_score(item.tfidf_score, claude_score,
                                                    semantic_score, doc.content, q),
        explanation |-> generate_relevance_explanation(claude_score, semantic_score)]

RECURSIVE InsertByScoreDesc(_, _)
\* x goes after every element whose combined_score is >= its own: a stable descending sort
InsertByScoreDesc(s, x) ==
    IF s = <<>> THEN <<x>>
    ELSE IF Head(s).combined_score >= x.combined_score
         THEN <<Head(s)>> \o InsertByScoreDesc(Tail(s), x)
         ELSE <<x>> \o s

\* The ranking sort is left out
SortByScoreDesc_Unsorted(s) == s

RECURSIVE SortByScoreDesc(_)
\* enhanced_results.sort(key=lambda x: x["combined_score"], reverse=True)
SortByScoreDesc(s) ==
    IF s = <<>> THEN <<>>
    ELSE InsertByScoreDesc(SortByScoreDesc(SubSeq(s, 1, Len(s) - 1)), s[Len(s)])

NoChunkIdKey == 999

\* x.get("chunk_id", 999)
ChunkIdKey(x) == IF "chunk_id" \in DOMAIN x THEN x.chunk_id ELSE NoChunkIdKey

RECURSIVE InsertByChunkId(_, _)
InsertByChunkId(s, x) ==
    IF s = <<>> THEN <<x>>
    ELSE IF ChunkIdKey(Head(s)) <= ChunkIdKey(x)
         THEN <<Head(s)>> \o InsertByChunkId(Tail(s), x)
         ELSE <<x>> \o s

\* The final re-sort is left out
SortByChunkId_Unsorted(s) == s

RECURSIVE SortByChunkId(_)
\* final_results.sort(key=lambda x: x.get("chunk_id", 999))
SortByChunkId(s) ==
    IF s = <<>> THEN <<>>
    ELSE InsertByChunkId(SortByChunkId(SubSeq(s, 1, Len(s) - 1)), s[Len(s)])

\* The lookup compares the content only
AttachMetadata_ByContent(result, corp) ==
    LET hits == {i \in 1..Len(corp) : corp[i].content = result.content}
    IN IF hits = {} THEN result
       ELSE LET i == CHOOSE h \in hits : \A g \in hits : h <= g
            IN [corpus_index |-> i - 1,
                chunk_id |-> corp[i].chunk_id,
                source |-> corp[i].source] @@ result

\* "Add metadata to results": the first corpus document with this title and content
AttachMetadata(result, corp) ==
    LET hits == {i \in 1..Len(corp) :
                     corp[i].title = result.title /\ corp[i].content = result.content}
    IN IF hits = {} THEN result
       ELSE LET i == CHOOSE h \in hits : \A g \in hits : h <= g
            IN [corpus_index |-> i - 1,
                chunk_id |-> corp[i].chunk_id,
                source |-> corp[i].source] @@ result

\* The annotated entries are the corpus documents themselves, so the metadata is
\* written into the corpus
CorpusAfterMetadata_Aliased(corp, annotated) ==
    [i \in 1..Len(corp) |->
        IF \E j \in 1..Len(annotated) :
               "corpus_index" \in DOMAIN annotated[j] /\ annotated[j].corpus_index = i - 1
        THEN [corpus_index |-> i - 1] @@ corp[i]
        ELSE corp[i]]

\* self.corpus after "Add metadata to results": the entries of enhanced_results are
\* dictionaries made by search itself, so the corpus documents are only read
CorpusAfterMetadata(corp, annotated) == corp

\* The slice takes the last k entries: enhanced_results[-k:]
TopK_Tail(ranked, kk) == PySuffix(ranked, kk)

\* final_results = enhanced_results[:k]
TopK(ranked, kk) == PyPrefix(ranked, kk)

\* The value search returns, from enhanced_results sorted and annotated
FinalResults(ranked, kk) == SortByChunkId(TopK(ranked, kk))

----------------------------------------------------------------------------
(* Context windows: get_chunk_context and search_with_context, search.py   *)

PreviewLen == 200
DOT == 12
\* the "..." appended to a cut content
Ellipsis == <<DOT, DOT, DOT>>

\* The difference is used with its sign
Abs_Signed(x) == x

\* abs(x)
Abs(x) == IF x < 0 THEN 0 - x ELSE x

\* doc["content"][:200] + "..." if len(doc["content"]) > 200 else doc["content"]
Preview(content) ==
    IF Len(content) > PreviewLen THEN PyPrefix(content, PreviewLen) \o Ellipsis ELSE content

\* One entry of context_chunks
ContextChunk(doc, chunk_id) ==
    [chunk_id |-> doc.chunk_id,
     title    |-> doc.title,
     content  |-> Preview(doc.content),
     distance |-> Abs(doc.chunk_id - chunk_id)]

\* get_chunk_context(chunk_id, source, context_size) on this corpus
get_chunk_context(corp, chunk_id, source, context_size) ==
    IF source # "mormon" THEN <<>>
    ELSE LET near(doc) == /\ "source" \in DOMAIN doc
                          /\ doc.source = "mormon"
                          /\ "chunk_id" \in DOMAIN doc
                          /\ Abs(doc.chunk_id - chunk_id) <= context_size
             docs == SelectSeq(corp, near)
         IN SortByChunkId([i \in 1..Len(docs) |-> ContextChunk(docs[i], chunk_id)])

\* context_size: int = 2
DefaultContextSize == 2

\* result.get("source") == "mormon"
FromMormon(result) == "source" \in DOMAIN result /\ result.source = "mormon"

\* result.get("source") == "mormon" and result.get("chunk_id")
HasNarrativeId(result) ==
    FromMormon(result) /\ "chunk_id" \in DOMAIN result /\ result.chunk_id # 0

\* context_info: chunk_id -> context chunks, for the results that carry a narrative id
ContextInfo(rs, corp) ==
    [id \in {rs[i].chunk_id : i \in {j \in 1..Len(rs) : HasNarrativeId(rs[j])}} |->
        get_chunk_context(corp, id, "mormon", DefaultContextSize)]

\* What search_with_context returns once self.search has returned rs
search_with_context(rs, include_context, corp) ==
    IF ~include_context
    THEN [results |-> rs, context |-> <<>>]
    ELSE [results |-> rs,
          context |-> ContextInfo(rs, corp),
          has_sequential_content |-> \E i \in 1..Len(rs) : FromMormon(rs[i])]

----------------------------------------------------------------------------
(* The /rag-query handler: app.py                                          *)

\* request.json as the handler reads it:
\*   "nobody"   no JSON body          "noquery"  a body without "query"
\*   "null"     "query": null         "number"   "query": a non-zero number
\*   "text"     "query": the string text
Body(kind, text) == [kind |-> kind, text |-> text]

\* Only a missing field is refused
QueryMissingOrEmpty_OnlyMissing(data) == data.kind \in {"nobody", "noquery"}

\* The two tests that end in a 400 response
QueryMissingOrEmpty(data) ==
    \/ data.kind \in {"nobody", "noquery"}
    \/ data.kind = "null"
    \/ (data.kind = "text" /\ Strip(data.text) = <<>>)

\* The 400 response of the test that refuses the request
Rejection(data) ==
    IF data.kind \in {"nobody", "noquery"}
    THEN [status |-> 400, error |-> "Missing 'query' field in request"]
    ELSE [status |-> 400, error |-> "Query cannot be empty"]

\* query.strip() on a value that is not a string: caught by "except Exception"
InternalError == [status |-> 500, error |-> "Internal server error"]

\* reranker.search_with_context(query, k=5, include_context=True)
RagK == 5

\* response_data, from the value of search_with_context
RagResponse(search_response) ==
    [status |-> 200,
     results |-> search_response.results,
     has_sequential_content |->
         IF "has_sequential_content" \in DOMAIN search_response
         THEN search_response.has_sequential_content ELSE FALSE,
     context_available |-> DOMAIN search_response.context # {}]

----------------------------------------------------------------------------
(* Embedding manager: embeddings.py                                        *)

\* self.fitted is set before the pipeline is fitted
fit_FlagFirst(isFitted, fitOk) ==
    [fitted |-> TRUE,
     out |-> IF fitOk THEN Returned(0) ELSE Raised("ValueError")]

\* fit(texts): pipeline.fit raises (fitOk false) or completes, and only then the
\* flag is set
fit(isFitted, fitOk) ==
    IF fitOk
    THEN [fitted |-> TRUE, out |-> Returned(0)]
    ELSE [fitted |-> isFitted, out |-> Raised("ValueError")]

\* The guard of get_embedding and get_embeddings_batch is left out
EmbedGuard_None(isFitted) == Returned(0)

\* "if not self.fitted: raise ValueError(...)"
EmbedGuard(isFitted) == IF ~isFitted THEN Raised("ValueError") ELSE Returned(0)

\* get_embedding(text): the guard, then pipeline.transform, which completes
\* (transformOk) or raises
get_embedding(isFitted, text, transformOk) ==
    IF EmbedGuard(isFitted).exc # "none" THEN EmbedGuard(isFitted)
    ELSE IF transformOk THEN Returned(1) ELSE Raised("NotFittedError")

\* get_embeddings_batch(texts)
get_embeddings_batch(isFitted, texts, transformOk) ==
    IF EmbedGuard(isFitted).exc # "none" THEN EmbedGuard(isFitted)
    ELSE IF transformOk THEN Returned(Len(texts)) ELSE Raised("NotFittedError")

----------------------------------------------------------------------------
(* The reranker: construction and the search handler                       *)

File(state, lines) == [state |-> state, lines |-> lines]
Env(source, size, overlap, file) ==
    [source |-> source, chunkSize |-> size, chunkOverlap |-> overlap, file |-> file]

\* Configurations the reranker is built under
BuildEnvs ==
    { Env("default", 500, 50, File("missing", <<>>)),
      Env("mormon", 40, 10, File("ok", <<LineVerseA, LineVerseB, LineVerseC>>)),
      Env("mormon", 500, 50, File("ok", <<LineHeading, LineVerseA>>)),
      Env("mormon", 40, 0, File("ok", <<LineVerseA, LineVerseA>>)),
      Env("mormon", 240, 10, File("ok", <<LineVerseC, LineVerseC, LineVerseC, LineVerseC,
                                         LineVerseA>>)) }

\* No request is being handled, no EmbeddingManager is used directly, no concurrent calls
NoRequests ==
    /\ request = None
    /\ response = None
    /\ contextCall = None

NoEmbedCalls ==
    /\ embedCall = None
    /\ fitLog = <<>>

NoThreads ==
    /\ frames = <<>>
    /\ inputs = <<>>

\* One reranker only, and the text processor is not called on its own
NoOthers ==
    /\ instances = <<>>
    /\ similarityCall = None

Init ==
    /\ env \in BuildEnvs
    /\ phase = "new"
    /\ corpus = <<>>
    /\ fitted = FALSE
    /\ indexSize = 0
    /\ pc = "idle"
    /\ query = <<>>
    /\ k = 0
    /\ retrieved = <<>>
    /\ enhanced = <<>>
    /\ results = <<>>
    /\ oracleCalls = 0
    /\ degraded = 0
    /\ loadCall = None
    /\ oracleCall = None
    /\ fusionCall = None
    /\ NoRequests
    /\ NoEmbedCalls
    /\ NoThreads
    /\ NoOthers

\* The constructor's steps in the order of __init__ and _build_index
NextBuildPhase(ph) ==
    CASE ph = "new" -> "loaded"
      [] ph = "loaded" -> "fitted"
      [] ph = "fitted" -> "embedded"
      [] ph = "embedded" -> "built"

\* An exception of a step is caught and the constructor goes on
OnBuildError_Continue(ph) == NextBuildPhase(ph)

\* Neither __init__ nor _build_index catches anything: the exception leaves the
\* constructor and create_app, and no instance exists
OnBuildError(ph) == "failed"

BuildStepResult(ph, out) ==
    IF out.exc = "none" THEN NextBuildPhase(ph) ELSE OnBuildError(ph)

\* pipeline.fit on the corpus texts: raises on an empty collection, and may raise
\* inside the library otherwise
FitOutcomes(corp) == IF corp = <<>> THEN {FALSE} ELSE {TRUE, FALSE}

\* self.corpus = load_corpus()
LoadStep ==
    /\ phase = "new"
    /\ LET loaded == load_corpus(env)
       IN /\ corpus' = IF loaded.exc = "none" THEN loaded.value ELSE <<>>
          /\ phase' = BuildStepResult(phase, loaded)
    /\ UNCHANGED <<env, fitted, indexSize, pc, query, k, retrieved, enhanced, results,
                   oracleCalls, degraded, loadCall, oracleCall, fusionCall,
                   apiVars, embedVars, threadVars, otherVars>>

\* self.embedding_manager.fit(texts)
FitStep ==
    /\ phase = "loaded"
    /\ \E fitOk \in FitOutcomes(corpus) :
           LET call == fit(fitted, fitOk)
           IN /\ fitted' = call.fitted
              /\ phase' = BuildStepResult(phase, call.out)
    /\ UNCHANGED <<env, corpus, indexSize, pc, query, k, retrieved, enhanced, results,
                   oracleCalls, degraded, loadCall, oracleCall, fusionCall,
                   apiVars, embedVars, threadVars, otherVars>>

\* doc_embeddings = self.embedding_manager.get_embeddings_batch(texts)
EmbedAllStep ==
    /\ phase = "fitted"
    /\ \E transformOk \in BOOLEAN :
           phase' = BuildStepResult(phase,
                        get_embeddings_batch(fitted,
                            [i \in 1..Len(corpus) |-> corpus[i].content], transformOk))
    /\ UNCHANGED <<env, corpus, fitted, indexSize, pc, query, k, retrieved, enhanced,
                   results, oracleCalls, degraded, loadCall, oracleCall, fusionCall,
                   apiVars, embedVars, threadVars, otherVars>>

\* self.index = faiss.IndexFlatIP(dimension); self.index.add(doc_embeddings)
IndexStep ==
    /\ phase = "embedded"
    /\ \E addOk \in BOOLEAN :
           /\ indexSize' = IF addOk THEN Len(corpus) ELSE 0
           /\ phase' = BuildStepResult(phase,
                           IF addOk THEN Returned(Len(corpus)) ELSE Raised("RuntimeError"))
    /\ UNCHANGED <<env, corpus, fitted, pc, query, k, retrieved, enhanced, results,
                   oracleCalls, degraded, loadCall, oracleCall, fusionCall,
                   apiVars, embedVars, threadVars, otherVars>>

\* search(query, k) up to the end of "Get retrieved documents"
Retrieval(q, kk) ==
    /\ Min(kk * 2, Len(corpus)) <= MaxRetrieve
    /\ \E hit \in IndexSearch(indexSize, Min(kk * 2, Len(corpus))) :
           retrieved' = Retrieve(corpus, hit)
    /\ query' = q
    /\ k' = kk
    /\ enhanced' = <<>>
    /\ results' = <<>>
    /\ oracleCalls' = 0
    /\ degraded' = 0
    /\ pc' = "scoring"

\* A call of search, directly or as the first statement of search_with_context
StartSearch(q, kk) ==
    /\ phase = "built"
    /\ pc = "idle"
    /\ Retrieval(q, kk)
    /\ UNCHANGED <<env, phase, corpus, fitted, indexSize, loadCall, oracleCall, fusionCall,
                   apiVars, embedVars, threadVars, otherVars>>

\* Bodies of the requests posted to /rag-query
Requests ==
    {Body("nobody", <<>>), Body("noquery", <<>>), Body("null", <<>>), Body("number", <<>>),
     Body("text", <<>>), Body("text", <<SP, SP>>)}
        \cup {Body("text", q) : q \in Queries}

\* rag_query up to its call of search_with_context, whose first statement is the
\* call of search
RagQuery(data) ==
    /\ phase = "built"
    /\ pc = "idle"
    /\ request' = data
    /\ IF QueryMissingOrEmpty(data)
       THEN /\ response' = Rejection(data)
            /\ pc' = "replied"
            /\ UNCHANGED <<query, k, retrieved, enhanced, results, oracleCalls, degraded>>
       ELSE IF data.kind # "text"
       THEN /\ response' = InternalError
            /\ pc' = "replied"
            /\ UNCHANGED <<query, k, retrieved, enhanced, results, oracleCalls, degraded>>
       ELSE /\ Retrieval(data.text, RagK)
            /\ UNCHANGED response
    /\ UNCHANGED <<env, phase, corpus, fitted, indexSize, loadCall, oracleCall, fusionCall,
                   contextCall, embedVars, threadVars, otherVars>>

\* Answers the oracle gives while a search runs
SearchResponses ==
    {OracleRaises, OracleText(NoNum, NoNum, FALSE), OracleText(NoNum, Unit, TRUE)}

\* What analyze_relevance_with_context can do for these context documents: its
\* outcome, and whether a request carrying the context prompt was sent and raised
OracleOutcomes(context_docs) ==
    {[call |-> analyze_relevance_with_context(context_docs, ctxResp, plainResp),
      contextRaised |-> (Len(context_docs) > 0 /\ ctxResp.raises)] :
         ctxResp \in SearchResponses, plainResp \in SearchResponses}

\* One iteration of "for item in retrieved"
ScoreCandidate ==
    /\ pc = "scoring"
    /\ Len(enhanced) < Len(retrieved)
    /\ LET item == retrieved[Len(enhanced) + 1]
       IN \E o \in OracleOutcomes(OtherDocs(retrieved, item)) :
              /\ o.call.out.exc = "none"
              /\ enhanced' = Append(enhanced, EnhancedResult(item, o.call.out.value, query))
              /\ oracleCalls' = oracleCalls + o.call.calls
              /\ degraded' = degraded + (IF o.contextRaised THEN 1 ELSE 0)
              /\ oracleCall' = [fn |-> "analyze_relevance_with_context",
                                target |-> item,
                                context_docs |-> OtherDocs(retrieved, item),
                                variant |-> o.call.variant]
    /\ UNCHANGED <<env, phase, corpus, fitted, indexSize, pc, query, k, retrieved,
                   results, loadCall, fusionCall,
                   apiVars, embedVars, threadVars, otherVars>>

\* The rest of search: sort, annotate, truncate, re-sort, return
FinishSearch ==
    /\ pc = "scoring"
    /\ Len(enhanced) = Len(retrieved)
    /\ LET ranked == SortByScoreDesc(enhanced)
           annotated == [i \in 1..Len(ranked) |-> AttachMetadata(ranked[i], corpus)]
       IN /\ enhanced' = annotated
          /\ results' = FinalResults(annotated, k)
          /\ corpus' = CorpusAfterMetadata(corpus, annotated)
    /\ pc' = "done"
    /\ oracleCall' = None
    /\ UNCHANGED <<env, phase, fitted, indexSize, query, k, retrieved,
                   oracleCalls, degraded, loadCall, fusionCall,
                   apiVars, embedVars, threadVars, otherVars>>

\* search has returned to search_with_context, which builds its value. Nothing
\* before this point depends on which caller search had, so the caller shows here:
\* rag_query asks for k = 5 with the context, any other caller chooses
SearchWithContextReturn(include_context) ==
    /\ pc = "done"
    /\ request # None => (include_context /\ k = RagK)
    /\ response' = search_with_context(results, include_context, corpus)
    /\ pc' = "responded"
    /\ UNCHANGED <<env, phase, corpus, fitted, indexSize, query, k, retrieved, enhanced,
                   results, oracleCalls, degraded, loadCall, oracleCall, fusionCall,
                   request, contextCall, embedVars, threadVars, otherVars>>

\* search_with_context has returned to rag_query, which replies
RagQueryReply ==
    /\ pc = "responded"
    /\ request # None
    /\ response' = RagResponse(response)
    /\ pc' = "replied"
    /\ UNCHANGED <<env, phase, corpus, fitted, indexSize, query, k, retrieved, enhanced,
                   results, oracleCalls, degraded, loadCall, oracleCall, fusionCall,
                   request, contextCall, embedVars, threadVars, otherVars>>

\* A call of get_chunk_context
GetChunkContext(chunk_id, source, context_size) ==
    /\ phase = "built"
    /\ pc = "idle"
    /\ contextCall' = [chunk_id |-> chunk_id, source |-> source,
                       context_size |-> context_size,
                       out |-> get_chunk_context(corpus, chunk_id, source, context_size)]
    /\ pc' = "context"
    /\ UNCHANGED <<env, phase, corpus, fitted, indexSize, query, k, retrieved, enhanced,
                   results, oracleCalls, degraded, loadCall, oracleCall, fusionCall,
                   request, response, embedVars, threadVars, otherVars>>

\* The outermost call has returned to its caller: the handlers' locals are gone
Return ==
    /\ \/ pc \in {"done", "responded"} /\ request = None
       \/ pc \in {"replied", "context"}
    /\ pc' = "idle"
    /\ query' = <<>>
    /\ k' = 0
    /\ retrieved' = <<>>
    /\ enhanced' = <<>>
    /\ results' = <<>>
    /\ oracleCalls' = 0
    /\ degraded' = 0
    /\ request' = None
    /\ response' = None
    /\ contextCall' = None
    /\ UNCHANGED <<env, phase, corpus, fitted, indexSize, loadCall, oracleCall, fusionCall,
                   embedVars, threadVars, otherVars>>

\* Arguments of get_chunk_context
MaxChunkArg == 4
MaxRadius == 2
ContextSources == {"mormon", "default"}

Next ==
    \/ LoadStep
    \/ FitStep
    \/ EmbedAllStep
    \/ IndexStep
    \/ \E q \in Queries, kk \in 1..MaxK : StartSearch(q, kk)
    \/ \E data \in Requests : RagQuery(data)
    \/ ScoreCandidate
    \/ FinishSearch
    \/ \E include_context \in BOOLEAN : SearchWithContextReturn(include_context)
    \/ RagQueryReply
    \/ \E chunk_id \in 0..MaxChunkArg, source \in ContextSources, context_size \in 0..MaxRadius :
           GetChunkContext(chunk_id, source, context_size)
    \/ Return

Spec == Init /\ [][Next]_vars

----------------------------------------------------------------------------
(* The loader functions called on their own                                *)

MaxLines == 3

SampleLines == {LineVerseA, LineVerseB, LineVerseC, LineShortVerse, LineHeading, LineProse,
                LineStarLord, LinePlain, LineBlank}

\* content.split('\n') always yields at least one line; an empty file is one blank line
Files ==
    {File("missing", <<>>), File("unreadable", <<>>)}
        \cup {File("ok", ls) : ls \in UNION {[1..n -> SampleLines] : n \in 1..MaxLines}}

Sources == {"default", "Mormon"}

\* (CHUNK_SIZE, CHUNK_OVERLAP) settings
ChunkSettings == {<<20, 5>>, <<40, 31>>, <<40, 39>>, <<100, 0>>}

LoadEnvs == {Env(src, cs[1], cs[2], f) : src \in Sources, cs \in ChunkSettings, f \in Files}

\* No reranker is built and no search runs
NoSearch ==
    /\ corpus = <<>>
    /\ fitted = FALSE
    /\ indexSize = 0
    /\ pc = "idle"
    /\ query = <<>>
    /\ k = 0
    /\ retrieved = <<>>
    /\ enhanced = <<>>
    /\ results = <<>>
    /\ oracleCalls = 0
    /\ degraded = 0

searchVars == <<corpus, fitted, indexSize, pc, query, k, retrieved, enhanced,
                results, oracleCalls, degraded>>

InitLoad ==
    /\ env \in LoadEnvs
    /\ phase = "load"
    /\ NoSearch
    /\ loadCall = None
    /\ oracleCall = None
    /\ fusionCall = None
    /\ NoRequests
    /\ NoEmbedCalls
    /\ NoThreads
    /\ NoOthers

CallLoadCorpus ==
    /\ phase = "load"
    /\ loadCall' = [fn |-> "load_corpus", out |-> load_corpus(env)]
    /\ UNCHANGED <<env, phase, searchVars, oracleCall, fusionCall,
                   apiVars, embedVars, threadVars, otherVars>>

CallLoadMormonCorpus ==
    /\ phase = "load"
    /\ loadCall' = [fn |-> "load_mormon_corpus",
                    out |-> load_mormon_corpus(env.file, env.chunkSize, env.chunkOverlap)]
    /\ UNCHANGED <<env, phase, searchVars, oracleCall, fusionCall,
                   apiVars, embedVars, threadVars, otherVars>>

CallLegacyLoadMormonCorpus ==
    /\ phase = "load"
    /\ loadCall' = [fn |-> "app.load_mormon_corpus",
                    out |-> legacy_load_mormon_corpus(env.file, env.chunkSize, env.chunkOverlap)]
    /\ UNCHANGED <<env, phase, searchVars, oracleCall, fusionCall,
                   apiVars, embedVars, threadVars, otherVars>>

NextLoad ==
    \/ CallLoadCorpus
    \/ CallLoadMormonCorpus
    \/ CallLegacyLoadMormonCorpus

SpecLoad == InitLoad /\ [][NextLoad]_vars

----------------------------------------------------------------------------
(* The oracle client methods called on their own                           *)

\* Numbers an answer may hold: 0, 0.3, 1, 1.5
OracleValues == {0, (3 * Unit) \div 10, Unit, (3 * Unit) \div 2}

Responses ==
    {OracleRaises, OracleText(NoNum, NoNum, FALSE)}
        \cup {OracleText(NoNum, v, b) : v \in OracleValues, b \in BOOLEAN}
        \cup {OracleText(l, f, FALSE) : l \in OracleValues, f \in OracleValues}

MaxContextDocs == 2

ContextLists == {SubSeq(get_default_corpus, 1, n) : n \in 0..MaxContextDocs}

BuildEnv == Env("default", 500, 50, File("missing", <<>>))

\* A call not yet made
Pending == [exc |-> "pending", value |-> 0]

\* The arguments of one call and the answers the oracle will give to its requests
OracleCallArgs ==
    {[fn |-> "analyze_relevance_with_context", context_docs |-> docs,
      ctxResp |-> r1, plainResp |-> r2, out |-> Pending, calls |-> 0] :
        docs \in ContextLists, r1 \in Responses, r2 \in Responses}
    \cup
    {[fn |-> fn, context_docs |-> <<>>, ctxResp |-> r, plainResp |-> r,
      out |-> Pending, calls |-> 0] :
        fn \in {"analyze_relevance", "analyze_with_claude"}, r \in Responses}

InitOracle ==
    /\ env = BuildEnv
    /\ phase = "oracle"
    /\ NoSearch
    /\ loadCall = None
    /\ oracleCall \in OracleCallArgs
    /\ fusionCall = None
    /\ NoRequests
    /\ NoEmbedCalls
    /\ NoThreads
    /\ NoOthers

CallAnalyzeRelevance ==
    /\ phase = "oracle"
    /\ oracleCall.fn = "analyze_relevance"
    /\ oracleCall.out = Pending
    /\ oracleCall' = [oracleCall EXCEPT !.out = analyze_relevance(oracleCall.plainResp),
                                        !.calls = 1]
    /\ UNCHANGED <<env, phase, searchVars, loadCall, fusionCall,
                   apiVars, embedVars, threadVars, otherVars>>

CallAnalyzeRelevanceWithContext ==
    /\ phase = "oracle"
    /\ oracleCall.fn = "analyze_relevance_with_context"
    /\ oracleCall.out = Pending
    /\ LET call == analyze_relevance_with_context(oracleCall.context_docs,
                                                  oracleCall.ctxResp, oracleCall.plainResp)
       IN oracleCall' = [oracleCall EXCEPT !.out = call.out, !.calls = call.calls]
    /\ UNCHANGED <<env, phase, searchVars, loadCall, fusionCall,
                   apiVars, embedVars, threadVars, otherVars>>

CallAnalyzeWithClaude ==
    /\ phase = "oracle"
    /\ oracleCall.fn = "analyze_with_claude"
    /\ oracleCall.out = Pending
    /\ oracleCall' = [oracleCall EXCEPT !.out = analyze_with_claude(oracleCall.plainResp),
                                        !.calls = 1]
    /\ UNCHANGED <<env, phase, searchVars, loadCall, fusionCall,
                   apiVars, embedVars, threadVars, otherVars>>

NextOracle ==
    \/ CallAnalyzeRelevance
    \/ CallAnalyzeRelevanceWithContext
    \/ CallAnalyzeWithClaude

SpecOracle == InitOracle /\ [][NextOracle]_vars

----------------------------------------------------------------------------
(* The fusion function called on its own                                   *)

\* Lexical index scores: -1, 0, 0.5, 1, 1.2
FusionTfidf == {0 - Unit, 0, Half, Unit, (6 * Unit) \div 5}
\* Oracle and semantic scores inside [0,1]
UnitScores == {0, Half, Unit}
FusionContents == {get_default_corpus[i].content : i \in 1..Len(get_default_corpus)} \cup {VerseA}
FusionQueries == {<<>>, wNephi, Join(<<wLegal, wRisk, wGo>>)}

\* Score not yet computed
NoScore == 0 - FusedOne - 1

FusionCallArgs ==
    [tfidf_score : FusionTfidf, claude_score : UnitScores, semantic_score : UnitScores,
     content : FusionContents, query : FusionQueries, out : {NoScore}]

InitFusion ==
    /\ env = BuildEnv
    /\ phase = "fusion"
    /\ NoSearch
    /\ loadCall = None
    /\ oracleCall = None
    /\ fusionCall \in FusionCallArgs
    /\ NoRequests
    /\ NoEmbedCalls
    /\ NoThreads
    /\ NoOthers

CallCalculateEnhancedScore ==
    /\ phase = "fusion"
    /\ fusionCall.out = NoScore
    /\ fusionCall' = [fusionCall EXCEPT !.out =
                        calculate_enhanced_score(fusionCall.tfidf_score, fusionCall.claude_score,
                                                 fusionCall.semantic_score, fusionCall.content,
                                                 fusionCall.query)]
    /\ UNCHANGED <<env, phase, searchVars, loadCall, oracleCall,
                   apiVars, embedVars, threadVars, otherVars>>

NextFusion == CallCalculateEnhancedScore

SpecFusion == InitFusion /\ [][NextFusion]_vars

----------------------------------------------------------------------------
(* The EmbeddingManager used on its own: embeddings.py                     *)

MaxFits == 3

EmbedTexts == {<<>>, wNephi, Join(<<wLegal, wRisk>>)}

\* The sklearn pipeline can transform: some fit completed, and no later fit broke off
\* half-way (after such a fit either outcome is possible)
PipelineOutcomes ==
    IF fitLog = <<>> \/ \A i \in 1..Len(fitLog) : ~fitLog[i] THEN {FALSE}
    ELSE IF fitLog[Len(fitLog)] THEN {TRUE}
    ELSE {TRUE, FALSE}

InitEmbed ==
    /\ env = BuildEnv
    /\ phase = "embed"
    /\ NoSearch
    /\ loadCall = None
    /\ oracleCall = None
    /\ fusionCall = None
    /\ NoRequests
    /\ NoEmbedCalls
    /\ NoThreads
    /\ NoOthers

CallFit(fitOk) ==
    /\ phase = "embed"
    /\ Len(fitLog) < MaxFits
    /\ LET call == fit(fitted, fitOk)
       IN /\ fitted' = call.fitted
          /\ embedCall' = [op |-> "fit", arg |-> <<>>, fittedBefore |-> fitted,
                           out |-> call.out]
    /\ fitLog' = Append(fitLog, fitOk)
    /\ UNCHANGED <<env, phase, corpus, indexSize, pc, query, k, retrieved, enhanced,
                   results, oracleCalls, degraded, loadCall, oracleCall, fusionCall,
                   apiVars, threadVars, otherVars>>

CallGetEmbedding(text) ==
    /\ phase = "embed"
    /\ \E transformOk \in PipelineOutcomes :
           embedCall' = [op |-> "get_embedding", arg |-> text, fittedBefore |-> fitted,
                         out |-> get_embedding(fitted, text, transformOk)]
    /\ UNCHANGED <<env, phase, searchVars, loadCall, oracleCall, fusionCall,
                   apiVars, fitLog, threadVars, otherVars>>

CallGetEmbeddingsBatch(texts) ==
    /\ phase = "embed"
    /\ \E transformOk \in PipelineOutcomes :
           embedCall' = [op |-> "get_embeddings_batch", arg |-> texts[1],
                         fittedBefore |-> fitted,
                         out |-> get_embeddings_batch(fitted, texts, transformOk)]
    /\ UNCHANGED <<env, phase, searchVars, loadCall, oracleCall, fusionCall,
                   apiVars, fitLog, threadVars, otherVars>>

NextEmbed ==
    \/ \E fitOk \in BOOLEAN : CallFit(fitOk)
    \/ \E text \in EmbedTexts : CallGetEmbedding(text)
    \/ \E text \in EmbedTexts : CallGetEmbeddingsBatch(<<text, wLord>>)

SpecEmbed == InitEmbed /\ [][NextEmbed]_vars

----------------------------------------------------------------------------
(* Concurrent calls of search on one built reranker                        *)

\* The request threads
Threads == {1, 2}

ConcurrentEnv == Env("mormon", 40, 10, File("ok", <<LineVerseA, LineVerseB>>))

\* Each thread serves its own client: the queries differ between the threads
ThreadQuery(t) == IF t = 1 THEN Join(<<wLegal, wRisk, wGo>>) ELSE Join(<<wLord, wLand>>)

\* All calls use one set of locals
FrameOf_Shared(t) == 1

\* query, k, retrieved, enhanced_results and final_results are local variables of
\* search: each call has its own
FrameOf(t) == t

EmptyFrame == [query |-> <<>>, k |-> 0, retrieved |-> <<>>, enhanced |-> <<>>, results |-> <<>>]

\* A thread that is not inside search
IdleCall == [pc |-> "idle", query |-> <<>>, k |-> 0, hit |-> None, answers |-> <<>>,
             returned |-> <<>>, overlapped |-> FALSE]

InitConcurrent ==
    /\ env = ConcurrentEnv
    /\ phase = "concurrent"
    /\ corpus = load_corpus(env).value
    /\ fitted = TRUE
    /\ indexSize = Len(corpus)
    /\ pc = "idle"
    /\ query = <<>>
    /\ k = 0
    /\ retrieved = <<>>
    /\ enhanced = <<>>
    /\ results = <<>>
    /\ oracleCalls = 0
    /\ degraded = 0
    /\ loadCall = None
    /\ oracleCall = None
    /\ fusionCall = None
    /\ NoRequests
    /\ NoEmbedCalls
    /\ frames = [t \in Threads |-> EmptyFrame]
    /\ inputs = [t \in Threads |-> IdleCall]
    /\ NoOthers

\* The scores analyze_relevance_with_context can return for these context documents
OracleScores(context_docs) ==
    {o.call.out.value : o \in {x \in OracleOutcomes(context_docs) : x.call.out.exc = "none"}}

sharedVars == <<env, phase, searchVars, loadCall, oracleCall, fusionCall, apiVars, embedVars,
                otherVars>>

\* Thread t enters search(q, kk) and runs it to the end of "Get retrieved documents"
CStart(t, q, kk) ==
    /\ phase = "concurrent"
    /\ inputs[t].pc = "idle"
    /\ Min(kk * 2, Len(corpus)) <= MaxRetrieve
    /\ \E hit \in IndexSearch(indexSize, Min(kk * 2, Len(corpus))) :
           /\ frames' = [frames EXCEPT ![FrameOf(t)] =
                            [query |-> q, k |-> kk, retrieved |-> Retrieve(corpus, hit),
                             enhanced |-> <<>>, results |-> <<>>]]
           /\ inputs' = [inputs EXCEPT ![t] =
                            [pc |-> "scoring", query |-> q, k |-> kk, hit |-> hit,
                             answers |-> <<>>, returned |-> <<>>, overlapped |-> FALSE]]
    /\ UNCHANGED sharedVars

\* Thread t runs one iteration of "for item in retrieved"
CScore(t) ==
    /\ inputs[t].pc = "scoring"
    /\ LET f == frames[FrameOf(t)]
       IN /\ Len(f.enhanced) < Len(f.retrieved)
          /\ LET item == f.retrieved[Len(f.enhanced) + 1]
             IN \E claude_score \in OracleScores(OtherDocs(f.retrieved, item)) :
                    /\ frames' = [frames EXCEPT ![FrameOf(t)].enhanced =
                                     Append(f.enhanced,
                                            EnhancedResult(item, claude_score, f.query))]
                    /\ inputs' = [inputs EXCEPT ![t].answers = Append(@, claude_score)]
    /\ UNCHANGED sharedVars

\* Thread t runs the rest of search and has its return value
CFinish(t) ==
    /\ inputs[t].pc = "scoring"
    /\ LET f == frames[FrameOf(t)]
           ranked == SortByScoreDesc(f.enhanced)
           annotated == [i \in 1..Len(ranked) |-> AttachMetadata(ranked[i], corpus)]
       IN /\ Len(f.enhanced) = Len(f.retrieved)
          /\ frames' = [frames EXCEPT ![FrameOf(t)].enhanced = annotated,
                                      ![FrameOf(t)].results = FinalResults(annotated, f.k)]
          /\ inputs' = [inputs EXCEPT
                           ![t].pc = "done",
                           ![t].returned = FinalResults(annotated, f.k),
                           ![t].overlapped =
                               \E u \in Threads \ {t} :
                                   /\ inputs[u].pc = "scoring"
                                   /\ inputs[u].answers # <<>>]
    /\ UNCHANGED sharedVars

\* The caller of thread t has taken the value; the locals are gone
CReturn(t) ==
    /\ inputs[t].pc = "done"
    /\ frames' = [frames EXCEPT ![FrameOf(t)] = EmptyFrame]
    /\ inputs' = [inputs EXCEPT ![t] = IdleCall]
    /\ UNCHANGED sharedVars

NextConcurrent ==
    \/ \E t \in Threads, kk \in 1..MaxK : CStart(t, ThreadQuery(t), kk)
    \/ \E t \in Threads : CScore(t)
    \/ \E t \in Threads : CFinish(t)
    \/ \E t \in Threads : CReturn(t)

SpecConcurrent == InitConcurrent /\ [][NextConcurrent]_vars

----------------------------------------------------------------------------
(* Several rerankers in one process                                        *)

\* enhanced_results of a search run alone: one entry per candidate, scored with
\* the oracle answer of its position
EnhancedAlone(retr, answers, q) ==
    SubSeq([i \in 1..Min(Len(retr), Len(answers)) |->
                EnhancedResult(retr[i], answers[i], q)],
           1, Min(Len(retr), Len(answers)))

AnnotatedAlone(ranked, corp) ==
    SubSeq([i \in 1..Len(ranked) |-> AttachMetadata(ranked[i], corp)], 1, Len(ranked))

\* search(q, kk) run alone on this corpus with this index answer and these oracle
\* answers, one per candidate in order
SearchAlone(corp, q, kk, hit, answers) ==
    CHOOSE res \in
        {FinalResults(annotated, kk) :
            annotated \in
                {AnnotatedAlone(ranked, corp) :
                    ranked \in
                        {SortByScoreDesc(enh) :
                            enh \in {EnhancedAlone(retr, answers, q) :
                                        retr \in {Retrieve(corp, hit)}}}}} : TRUE

\* The HybridReranker objects constructed in the process
Instances == {1, 2}

InstanceEnvs ==
    {Env("mormon", 40, 10, File("ok", <<LineVerseA, LineVerseB, LineVerseC>>)),
     Env("mormon", 40, 10, File("ok", <<LineVerseA, LineVerseB>>))}

\* The corpus, the embedding manager and the index are module-level singletons
OwnerOf_Singleton(i) == 1

\* self.corpus, self.embedding_manager and self.index are attributes set by
\* __init__ on the object under construction
OwnerOf(i) == i

\* An object whose __init__ has not yet run its first statement
NewInstance == [phase |-> "new", corpus |-> <<>>, fitted |-> FALSE, indexSize |-> 0]

NoOutput == [op |-> "none", value |-> <<>>]

InitInstances ==
    /\ env \in InstanceEnvs
    /\ phase = "instances"
    /\ NoSearch
    /\ loadCall = None
    /\ oracleCall = None
    /\ fusionCall = None
    /\ NoRequests
    /\ NoEmbedCalls
    /\ NoThreads
    /\ instances = [objs |-> [i \in Instances |-> NewInstance], actor |-> 0,
                    out |-> NoOutput]
    /\ similarityCall = None

instanceFrame == <<env, phase, searchVars, loadCall, oracleCall, fusionCall, apiVars,
                   embedVars, threadVars, similarityCall>>

\* The next statement of the constructor of instance i
InstanceBuildStep(i) ==
    /\ phase = "instances"
    /\ LET o == instances.objs[OwnerOf(i)]
           loaded == load_corpus(env)
       IN /\ o.phase \in {"new", "loaded", "fitted", "embedded"}
          /\ \E ok \in BOOLEAN :
                 /\ o.phase = "loaded" => ok \in FitOutcomes(o.corpus)
                 /\ o.phase = "new" => ok = (loaded.exc = "none")
                 /\ instances' =
                        [objs |-> [instances.objs EXCEPT ![OwnerOf(i)] =
                            CASE o.phase = "new" ->
                                   [o EXCEPT !.corpus = IF ok THEN loaded.value ELSE <<>>,
                                             !.phase = BuildStepResult(o.phase, loaded)]
                              [] o.phase = "loaded" ->
                                   [o EXCEPT !.fitted = fit(o.fitted, ok).fitted,
                                             !.phase = BuildStepResult(o.phase,
                                                           fit(o.fitted, ok).out)]
                              [] o.phase = "fitted" ->
                                   [o EXCEPT !.phase = BuildStepResult(o.phase,
                                       get_embeddings_batch(o.fitted,
                                           [j \in 1..Len(o.corpus) |-> o.corpus[j].content],
                                           ok))]
                              [] o.phase = "embedded" ->
                                   [o EXCEPT !.indexSize = IF ok THEN Len(o.corpus) ELSE 0,
                                             !.phase = BuildStepResult(o.phase,
                                                 IF ok THEN Returned(Len(o.corpus))
                                                 ELSE Raised("RuntimeError"))]],
                         actor |-> i,
                         out |-> NoOutput]
    /\ UNCHANGED instanceFrame

\* instance i answers search(q, kk)
InstanceSearch(i, q, kk) ==
    /\ phase = "instances"
    /\ LET o == instances.objs[OwnerOf(i)]
       IN /\ o.phase = "built"
          /\ instances.out = NoOutput
          /\ Min(kk * 2, Len(o.corpus)) <= MaxRetrieve
          /\ \E hit \in IndexSearch(o.indexSize, Min(kk * 2, Len(o.corpus))) :
             \E claude_score \in OracleScores(<<>>) :
                 LET retr == Retrieve(o.corpus, hit)
                     answers == [j \in 1..Len(retr) |-> claude_score]
                     value == SearchAlone(o.corpus, q, kk, hit, answers)
                 IN instances' =
                        [objs |-> [instances.objs EXCEPT ![OwnerOf(i)].corpus =
                                      CorpusAfterMetadata(o.corpus, value)],
                         actor |-> i,
                         out |-> [op |-> "search", value |-> value]]
    /\ UNCHANGED instanceFrame

\* instance i answers get_chunk_context(chunk_id, source)
InstanceGetChunkContext(i, chunk_id, source) ==
    /\ phase = "instances"
    /\ LET o == instances.objs[OwnerOf(i)]
       IN /\ o.phase = "built"
          /\ instances.out = NoOutput
          /\ instances' =
                 [instances EXCEPT
                     !.actor = i,
                     !.out = [op |-> "get_chunk_context",
                              value |-> get_chunk_context(o.corpus, chunk_id, source,
                                                          DefaultContextSize)]]
    /\ UNCHANGED instanceFrame

\* The caller has taken the value of the last query
InstanceReturn ==
    /\ phase = "instances"
    /\ instances.out # NoOutput
    /\ instances' = [instances EXCEPT !.out = NoOutput]
    /\ UNCHANGED instanceFrame

NextInstances ==
    \/ \E i \in Instances : InstanceBuildStep(i)
    \/ \E i \in Instances, kk \in 1..MaxK : InstanceSearch(i, ThreadQuery(i), kk)
    \/ \E i \in Instances, chunk_id \in 1..2, source \in ContextSources :
           InstanceGetChunkContext(i, chunk_id, source)
    \/ InstanceReturn

SpecInstances == InitInstances /\ [][NextInstances]_vars

----------------------------------------------------------------------------
(* calculate_semantic_similarity called on its own                         *)

SimilarityTexts ==
    { <<>>,
      <<SP, SP>>,
      Join(<<wThe, wGo>>),
      wRisk,
      Join(<<wLands, wLand>>),
      Join(<<wLegal, wRisk, wGo>>),
      Join(<<wLand, wAudit, wThe>>),
      Join(<<wNephi, wLord, wRisk, wLegal, wLand>>),
      Join(<<wNephi, wLord, wRisk, wLegal, wAudit>>),
      <<STAR>> \o wLord \o <<STAR, SP>> \o wAudit }

InitSimilarity ==
    /\ env = BuildEnv
    /\ phase = "similarity"
    /\ NoSearch
    /\ loadCall = None
    /\ oracleCall = None
    /\ fusionCall = None
    /\ NoRequests
    /\ NoEmbedCalls
    /\ NoThreads
    /\ instances = <<>>
    /\ similarityCall \in {[text1 |-> a, text2 |-> b, done |-> FALSE, ab |-> 0, ba |-> 0,
                            aa |-> 0] : a \in SimilarityTexts, b \in SimilarityTexts}

\* similarity of the two texts in both orders, and of the first with itself
CallCalculateSemanticSimilarity ==
    /\ phase = "similarity"
    /\ ~similarityCall.done
    /\ similarityCall' =
           [similarityCall EXCEPT
               !.done = TRUE,
               !.ab = calculate_semantic_similarity(similarityCall.text1, similarityCall.text2),
               !.ba = calculate_semantic_similarity(similarityCall.text2, similarityCall.text1),
               !.aa = calculate_semantic_similarity(similarityCall.text1, similarityCall.text1)]
    /\ UNCHANGED <<env, phase, searchVars, loadCall, oracleCall, fusionCall, apiVars,
                   embedVars, threadVars, instances>>

NextSimilarity == CallCalculateSemanticSimilarity

SpecSimilarity == InitSimilarity /\ [][NextSimilarity]_vars

----------------------------------------------------------------------------
(* The single-file application: src/app.py                                 *)

\* "index.search(np.array([query_embedding]), k=3)"
LegacyK == 3

\* Score faiss reports in a slot it could not fill (the lowest float)
FaissNoScore == 0 - 1000 * Unit

\* faiss IndexFlatIP.search(x, k) when k may exceed the n vectors held: the
\* slots past the n-th carry the label -1
faiss_search(n, kk) ==
    {[I |-> h.I \o [j \in 1..(kk - Len(h.I)) |-> 0 - 1],
      D |-> h.D \o [j \in 1..(kk - Len(h.D)) |-> FaissNoScore]] : h \in IndexSearch(n, kk)}

\* s[i] of a Python list: a negative i counts from the end
PyItem(s, i) == IF i >= 0 THEN s[i + 1] ELSE s[Len(s) + i + 1]

\* load_corpus of src/app.py
legacy_load_corpus(e) ==
    IF Lower(e.source) = "mormon"
    THEN legacy_load_mormon_corpus(e.file, e.chunkSize, e.chunkOverlap)
    ELSE Returned(legacy_get_default_corpus)

\* Configurations the application is started under: one, two and three documents
LegacyEnvs ==
    { Env("default", 500, 50, File("missing", <<>>)),
      Env("mormon", 500, 50, File("ok", <<LineHeading, LineVerseA>>)),
      Env("mormon", 40, 10, File("ok", <<LineVerseA, LineVerseB>>)),
      Env("mormon", 40, 10, File("ok", <<LineVerseA, LineVerseB, LineVerseC>>)) }

\* Scores analyze_with_claude may return for one document
LegacyAnswers == {analyze_with_claude(r).value :
                      r \in {OracleRaises, OracleText(NoNum, 0, TRUE),
                             OracleText(NoNum, (3 * Unit) \div 2, TRUE)}}

InitLegacy ==
    /\ env \in LegacyEnvs
    /\ phase = "legacy-import"
    /\ NoSearch
    /\ loadCall = None
    /\ oracleCall = None
    /\ fusionCall = None
    /\ NoRequests
    /\ NoEmbedCalls
    /\ NoThreads
    /\ NoOthers

\* Module level of src/app.py: the corpus is loaded, the vectorizer fitted and
\* one vector per document added to the index
LegacyImport ==
    /\ phase = "legacy-import"
    /\ corpus' = legacy_load_corpus(env).value
    /\ fitted' = TRUE
    /\ indexSize' = Len(corpus')
    /\ phase' = "legacy"
    /\ UNCHANGED <<env, pc, query, k, retrieved, enhanced, results, oracleCalls, degraded,
                   loadCall, oracleCall, fusionCall, apiVars, embedVars, threadVars,
                   otherVars>>

\* One entry of results of rag_query: (tfidf_score * 0.3) + (claude_score * 0.7),
\* held in units of 1/(10 * Unit)
LegacyResult(item, claude_score) ==
    [title |-> item.doc.title,
     content |-> item.doc.content,
     tfidf_score |-> item.tfidf_score,
     claude_score |-> claude_score,
     combined_score |-> 3 * item.tfidf_score + 7 * claude_score]

\* rag_query of src/app.py; index is the position the index returned for the entry
LegacyRagQuery(q) ==
    /\ phase = "legacy"
    /\ response = None
    /\ \E hit \in faiss_search(indexSize, LegacyK), answers \in [1..LegacyK -> LegacyAnswers] :
          LET retr == [i \in 1..Len(hit.I) |->
                           [doc |-> PyItem(corpus, hit.I[i]),
                            tfidf_score |-> hit.D[i],
                            index |-> hit.I[i]]]
              res  == SortByScoreDesc([i \in 1..Len(retr) |-> LegacyResult(retr[i], answers[i])])
          IN /\ retrieved' = retr
             /\ results' = res
             /\ response' = Returned(res)
             /\ oracleCalls' = Len(retr)
    /\ query' = q
    /\ k' = LegacyK
    /\ pc' = "done"
    /\ UNCHANGED <<env, phase, corpus, fitted, indexSize, enhanced, degraded,
                   loadCall, oracleCall, fusionCall, request, contextCall, embedVars,
                   threadVars, otherVars>>

\* The response is sent and the locals of the handler are gone
LegacyReturn ==
    /\ phase = "legacy"
    /\ response # None
    /\ response' = None
    /\ pc' = "idle"
    /\ query' = <<>>
    /\ k' = 0
    /\ retrieved' = <<>>
    /\ results' = <<>>
    /\ oracleCalls' = 0
    /\ UNCHANGED <<env, phase, corpus, fitted, indexSize, enhanced, degraded,
                   loadCall, oracleCall, fusionCall, request, contextCall, embedVars,
                   threadVars, otherVars>>

NextLegacy ==
    \/ LegacyImport
    \/ \E q \in Queries : LegacyRagQuery(q)
    \/ LegacyReturn

SpecLegacy == InitLegacy /\ [][NextLegacy]_vars

----------------------------------------------------------------------------
(* Properties of search                                                    *)

\* The documents of a list of results, as a set
Docs(rs) == {[title |-> rs[i].title, content |-> rs[i].content] : i \in 1..Len(rs)}

C3_TopKByScore ==
    pc = "done" =>
        /\ Len(retrieved) = Min(2 * k, Len(corpus))
        /\ Len(enhanced) = Len(retrieved)
        /\ Len(results) = Min(k, Len(retrieved))
        /\ Cardinality(Docs(results)) = Len(results)
        /\ Docs(results) \subseteq {[title |-> retrieved[i].doc.title,
                                     content |-> retrieved[i].doc.content] :
                                        i \in 1..Len(retrieved)}
        /\ \A i \in 1..Len(enhanced) :
               [title |-> enhanced[i].title, content |-> enhanced[i].content]
                       \notin Docs(results)
                   => \A j \in 1..Len(results) :
                          enhanced[i].combined_score <= results[j].combined_score

\* C3 witness: a candidate was left out whose score is strictly below that of every
\* returned result, although the index had it first
C3_Witness ==
    /\ pc = "done"
    /\ Len(retrieved) > k
    /\ [title |-> retrieved[1].doc.title, content |-> retrieved[1].doc.content]
           \notin Docs(results)
    /\ \A j \in 1..Len(results) :
           enhanced[Len(enhanced)].combined_score < results[j].combined_score

\* C3 witness of the other case: fewer than k candidates retrieved, all returned
C3_WitnessAllReturned ==
    /\ pc = "done"
    /\ Len(retrieved) < k
    /\ Len(results) = Len(retrieved)
    /\ Len(results) > 0

\* C8 as stated: a completed search made exactly min(2k, corpus size) oracle requests.
C8_ExactlyOneCallPerCandidate ==
    pc = "done" => oracleCalls = Min(2 * k, Len(corpus))

\* C8 amended: a completed search scored each of its min(2k, corpus size) candidates
\* once, and made one oracle request per candidate plus one more for every candidate
\* whose context request raised.
C8_OneCallPlusRetries ==
    pc = "done" =>
        /\ Len(enhanced) = Min(2 * k, Len(corpus))
        /\ degraded <= Len(enhanced)
        /\ oracleCalls = Len(enhanced) + degraded

\* C8 witness: a search with a candidate whose context request raised and one whose
\* context request did not
C8_Witness ==
    /\ pc = "done"
    /\ degraded > 0
    /\ degraded < Len(enhanced)
    /\ oracleCalls > Min(2 * k, Len(corpus))

----------------------------------------------------------------------------
(* Properties of the fusion function                                       *)

\* C4: the fused combined_score lies in [0, 1] for every combination of component
\* scores, the lexical score being above 1.0 or below 0 included.
C4_FusedScoreInUnitInterval ==
    fusionCall.out # NoScore => (0 <= fusionCall.out /\ fusionCall.out <= FusedOne)

----------------------------------------------------------------------------
(* Properties of the oracle client                                         *)

OracleCallDone == oracleCall.out.exc # "pending"

\* C5: when the oracle call raises, analyze_relevance (and analyze_with_claude of the
\* single-file application) returns exactly 0.5 and raises nothing.
C5_RaisedOracleGivesHalf ==
    (/\ OracleCallDone
     /\ oracleCall.fn \in {"analyze_relevance", "analyze_with_claude"}
     /\ oracleCall.plainResp.raises)
        => (oracleCall.out.exc = "none" /\ oracleCall.out.value = Half)

\* C5 witness: analyze_relevance has returned 0.5 from a call that raised
C5_Witness ==
    /\ OracleCallDone
    /\ oracleCall.fn = "analyze_relevance"
    /\ oracleCall.plainResp.raises
    /\ oracleCall.out.exc = "none"
    /\ oracleCall.out.value = Half

\* C6: analyze_relevance and analyze_relevance_with_context return a value in [0, 1]
\* for every oracle outcome: a labelled score, a number of any magnitude, no number
\* at all, a raised call.
C6_ScoreInUnitInterval ==
    (/\ OracleCallDone
     /\ oracleCall.fn \in {"analyze_relevance", "analyze_relevance_with_context"})
        => /\ oracleCall.out.exc = "none"
           /\ 0 <= oracleCall.out.value
           /\ oracleCall.out.value <= Unit

\* C6 witness: a context answer above 1 came back as 1, and a labelled answer above 1
\* is among the calls
C6_Witness ==
    /\ OracleCallDone
    /\ oracleCall.fn = "analyze_relevance_with_context"
    /\ Len(oracleCall.context_docs) > 0
    /\ ~oracleCall.ctxResp.raises
    /\ oracleCall.ctxResp.first > Unit
    /\ oracleCall.out.value = Unit

\* The context request was sent and failed: it raised, or its answer holds no number
ContextRequestFailed ==
    /\ oracleCall.fn = "analyze_relevance_with_context"
    /\ Len(oracleCall.context_docs) > 0
    /\ (oracleCall.ctxResp.raises \/ oracleCall.ctxResp.first = NoNum)

----------------------------------------------------------------------------
(* Properties of the loader                                                *)

\* No verse can be read from the data file: it is absent, unreadable, or no line parses
NoVerses(file) ==
    file.state # "ok" \/ ParseVerses(file.lines) = <<>>

\* C9: load_corpus never raises and never returns an empty list; for an unrecognised
\* source selector, a missing or unreadable data file, or a file from which no verse
\* parses, it returns the default corpus of 5 documents.
C9_LoadNeverEmpty ==
    (loadCall # None /\ loadCall.fn = "load_corpus")
        => /\ loadCall.out.exc = "none"
           /\ Len(loadCall.out.value) > 0
           /\ (Lower(env.source) # "mormon" \/ NoVerses(env.file))
                  => (/\ loadCall.out.value = get_default_corpus
                      /\ Len(loadCall.out.value) = 5)

\* C9 witness: the selector names the structured source, its file cannot be read,
\* and load_corpus returned the five defaults
C9_Witness ==
    /\ loadCall # None
    /\ loadCall.fn = "load_corpus"
    /\ Lower(env.source) = "mormon"
    /\ env.file.state = "unreadable"
    /\ loadCall.out.exc = "none"
    /\ Len(loadCall.out.value) = 5

\* The data file is not found, or exists and is empty
FileMissingOrEmpty ==
    env.file.state = "missing" \/ (env.file.state = "ok" /\ env.file.lines = <<LineBlank>>)

LoadMormonCalled ==
    /\ loadCall # None
    /\ loadCall.fn \in {"load_mormon_corpus", "app.load_mormon_corpus"}

----------------------------------------------------------------------------
(* Properties of chunking                                                  *)

\* A loader of corpus.py has returned
LoaderReturned ==
    /\ loadCall # None
    /\ loadCall.fn \in {"load_corpus", "load_mormon_corpus"}
    /\ loadCall.out.exc = "none"

\* The verses the parsers read from the data file of this configuration
FileVerses == IF env.file.state = "ok" THEN ParseVerses(env.file.lines) ELSE <<>>

LongestVerse == IF FileVerses = <<>> THEN 0
                ELSE CHOOSE n \in {Len(FileVerses[i]) : i \in 1..Len(FileVerses)} :
                         \A i \in 1..Len(FileVerses) : Len(FileVerses[i]) <= n

\* The chunks a loader call has produced (none when it returned the default set)
ProducedChunks ==
    IF /\ loadCall # None
       /\ loadCall.fn \in {"load_mormon_corpus", "app.load_mormon_corpus"}
       /\ loadCall.out.exc = "none"
       /\ FileVerses # <<>>
    THEN loadCall.out.value
    ELSE <<>>

\* C11: in every corpus the loader returns, chunked or default, the chunk_id of the
\* i-th document is i: the ids are unique, strictly increasing in source order, and
\* exactly 1..n.
C11_ChunkIdsSequential ==
    LoaderReturned =>
        \A i \in 1..Len(loadCall.out.value) : loadCall.out.value[i].chunk_id = i

\* C11 witness: load_mormon_corpus closed at least two chunks and added the last one
C11_Witness ==
    /\ LoaderReturned
    /\ loadCall.fn = "load_mormon_corpus"
    /\ Len(loadCall.out.value) >= 3
    /\ loadCall.out.value[1].source = "mormon"
    /\ loadCall.out.value[3].chunk_id = 3

\* C12: with 0 <= overlap < max chunk size, every produced chunk except possibly the
\* last is at most max chunk size + the longest verse long, there are no more chunks
\* than verses, and every chunk is non-empty and ends with a whole verse.
C12_ChunkWithinSizePlusVerse ==
    (0 <= env.chunkOverlap /\ env.chunkOverlap < env.chunkSize) =>
        /\ \A i \in 1..(Len(ProducedChunks) - 1) :
               Len(ProducedChunks[i].content) <= env.chunkSize + LongestVerse
        /\ Len(ProducedChunks) <= Len(FileVerses)
        /\ \A i \in 1..Len(ProducedChunks) :
               /\ Len(ProducedChunks[i].content) > 0
               /\ \E j \in 1..Len(FileVerses) :
                      PySuffix(ProducedChunks[i].content, Len(FileVerses[j])) = FileVerses[j]

\* C12 witness: a chunk that is not the last one is exactly max chunk size + the
\* longest verse long
C12_Witness ==
    /\ Len(ProducedChunks) >= 2
    /\ env.chunkOverlap < env.chunkSize
    /\ Len(ProducedChunks[1].content) <= env.chunkSize + LongestVerse
    /\ \E i \in 1..(Len(ProducedChunks) - 1) :
           Len(ProducedChunks[i].content) = env.chunkSize + LongestVerse

\* C13: every chunk load_mormon_corpus produces has content of at most CHUNK_SIZE
\* characters.
C13_ChunkWithinSize ==
    \A i \in 1..Len(ProducedChunks) : Len(ProducedChunks[i].content) <= env.chunkSize

\* The chunks of a load_mormon_corpus call of corpus.py
PackageChunks ==
    IF loadCall # None /\ loadCall.fn = "load_mormon_corpus" THEN ProducedChunks ELSE <<>>

StartsWith(s, p) == Len(p) <= Len(s) /\ SubSeq(s, 1, Len(p)) = p

\* chunk i + 1 starts with this text followed by one of the verses
NextChunkStartsWith(i, head) ==
    \E j \in 1..Len(FileVerses) :
        StartsWith(PackageChunks[i + 1].content, LStrip(head \o FileVerses[j]))

\* C23 as stated: after a chunk is closed with overlap N > 0 the next chunk starts
\* with the last N characters of the closed chunk followed by the next verse, and
\* with the verse alone only when the closed chunk is shorter than N.
C23_NextChunkStartsWithTail ==
    env.chunkOverlap > 0 =>
        \A i \in 1..(Len(PackageChunks) - 1) :
            LET closed == PackageChunks[i].content
                next == PackageChunks[i + 1].content
            IN IF Len(closed) < env.chunkOverlap
               THEN \E j \in 1..Len(FileVerses) : StartsWith(next, FileVerses[j])
               ELSE \E j \in 1..Len(FileVerses) :
                        \/ StartsWith(next, PySuffix(closed, env.chunkOverlap)
                                                \o <<SP>> \o FileVerses[j])
                        \/ StartsWith(next, PySuffix(closed, env.chunkOverlap)
                                                \o FileVerses[j])

\* C23 amended: after a chunk longer than N is closed, the next chunk starts with
\* its last N characters less their leading whitespace, a space and the next verse;
\* after a chunk shorter than N it starts with the verse alone; after a chunk of
\* exactly N characters it starts with one or the other.
C23_NextChunkStartsWithStrippedTail ==
    env.chunkOverlap > 0 =>
        \A i \in 1..(Len(PackageChunks) - 1) :
            LET closed == PackageChunks[i].content
                tail == PySuffix(closed, env.chunkOverlap) \o <<SP>>
            IN /\ Len(closed) > env.chunkOverlap => NextChunkStartsWith(i, tail)
               /\ Len(closed) < env.chunkOverlap => NextChunkStartsWith(i, <<>>)
               /\ Len(closed) = env.chunkOverlap =>
                      (NextChunkStartsWith(i, tail) \/ NextChunkStartsWith(i, <<>>))

\* C23 witness: the tail of a closed chunk begins with a space, which the next
\* chunk does not keep
C23_Witness ==
    /\ env.chunkOverlap > 0
    /\ \E i \in 1..(Len(PackageChunks) - 1) :
           /\ Len(PackageChunks[i].content) > env.chunkOverlap
           /\ PySuffix(PackageChunks[i].content, env.chunkOverlap)[1] = SP
           /\ NextChunkStartsWith(i, PySuffix(PackageChunks[i].content, env.chunkOverlap)
                                         \o <<SP>>)

\* C23 witness: a closed chunk of exactly N characters is followed by the verse alone
C23_WitnessExactLength ==
    /\ env.chunkOverlap > 0
    /\ \E i \in 1..(Len(PackageChunks) - 1) :
           /\ Len(PackageChunks[i].content) = env.chunkOverlap
           /\ ~NextChunkStartsWith(i, PySuffix(PackageChunks[i].content, env.chunkOverlap)
                                          \o <<SP>>)
           /\ NextChunkStartsWith(i, <<>>)

\* C23 witness: a closed chunk shorter than N is followed by the verse alone
C23_WitnessShorter ==
    /\ env.chunkOverlap > 0
    /\ \E i \in 1..(Len(PackageChunks) - 1) :
           /\ Len(PackageChunks[i].content) < env.chunkOverlap
           /\ NextChunkStartsWith(i, <<>>)

\* p occurs in s as a contiguous piece
Occurs(s, p) == \E a \in 0..(Len(s) - Len(p)) : SubSeq(s, a + 1, a + Len(p)) = p

\* All the conditions of the loose pattern hold of the line together
AllLooseConditions(line) ==
    /\ Len(line.text) > MinLooseLen
    /\ ~line.star
    /\ ~line.bracket
    /\ ~line.chapter
    /\ ~line.heading
    /\ ~line.allcaps
    /\ (line.nephi \/ line.lord \/ line.cameToPass)

\* C24: the loose parser runs only when the primary pattern matched no verse, and
\* every line it accepts meets all its conditions together: minimum length, no
\* markup or heading, not all capitals, and one of the keywords.
C24_LooseAcceptsOnlyConjunction ==
    (env.file.state = "ok" /\ PackageChunks # <<>>) =>
        /\ ParsePrimary(env.file.lines) # <<>> => FileVerses = ParsePrimary(env.file.lines)
        /\ ParsePrimary(env.file.lines) = <<>> =>
               \A n \in 1..Len(env.file.lines) :
                   (/\ env.file.lines[n].text # <<>>
                    /\ \E i \in 1..Len(PackageChunks) :
                           Occurs(PackageChunks[i].content, env.file.lines[n].text))
                       => AllLooseConditions(env.file.lines[n])

----------------------------------------------------------------------------
(* Properties of the context functions and of the request handler          *)

\* |a - b|
Dist(a, b) == IF a >= b THEN a - b ELSE b - a

\* The context chunk a document must appear as for the target chunk_id
ExpectedContextChunk(doc, chunk_id) ==
    [chunk_id |-> doc.chunk_id,
     title    |-> doc.title,
     content  |-> IF Len(doc.content) > 200
                  THEN SubSeq(doc.content, 1, 200) \o <<DOT, DOT, DOT>>
                  ELSE doc.content,
     distance |-> Dist(doc.chunk_id, chunk_id)]

\* The value of get_chunk_context holds exactly the documents at these corpus
\* positions, in ascending chunk_id order, annotated and cut
ContextIsExactly(positions) ==
    LET out == contextCall.out
    IN /\ Len(out) = Cardinality(positions)
       /\ \A i \in positions :
              \E j \in 1..Len(out) :
                  out[j] = ExpectedContextChunk(corpus[i], contextCall.chunk_id)
       /\ \A j \in 1..(Len(out) - 1) : out[j].chunk_id < out[j + 1].chunk_id

\* C14 as stated: on every corpus, get_chunk_context returns exactly the documents
\* whose chunk_id is within the radius of the target, sorted, annotated and cut.
C14_ContextIsAllNearDocuments ==
    pc = "context" =>
        ContextIsExactly({i \in 1..Len(corpus) :
            Dist(corpus[i].chunk_id, contextCall.chunk_id) <= contextCall.context_size})

\* C14 amended: called for the sequential source ("mormon"), get_chunk_context returns
\* exactly the documents of that source whose chunk_id is within the radius of the
\* target, sorted ascending by chunk_id, each with its distance and with content cut
\* to 200 characters plus "..." when longer; called for any other source it returns
\* an empty list, and documents of another source (the default set) never appear.
C14_ContextIsNearSequentialDocuments ==
    pc = "context" =>
        ContextIsExactly({i \in 1..Len(corpus) :
            /\ contextCall.source = "mormon"
            /\ corpus[i].source = "mormon"
            /\ Dist(corpus[i].chunk_id, contextCall.chunk_id) <= contextCall.context_size})

\* C14 witness: two chunks around the target came back, one before it and cut to
\* the preview length, one after it
C14_Witness ==
    /\ pc = "context"
    /\ Len(contextCall.out) = 2
    /\ contextCall.out[1].chunk_id < contextCall.chunk_id
    /\ Len(contextCall.out[1].content) = 203
    /\ Len(corpus[1].content) > 200
    /\ contextCall.out[2].distance = 0

\* C15: for either value of include_context, the value of search_with_context carries
\* results, context and has_sequential_content, and has_sequential_content is true
\* exactly when a returned result came from the sequential source.
C15_ResponseHasThreeFields ==
    (pc = "responded") =>
        /\ {"results", "context", "has_sequential_content"} \subseteq DOMAIN response
        /\ response.results = results
        /\ response.has_sequential_content
               <=> (\E i \in 1..Len(results) : results[i].source = "mormon")

\* The body names no query, or an empty one
NoQueryGiven(data) ==
    \/ data.kind \in {"nobody", "noquery", "null"}
    \/ (data.kind = "text" /\ \A i \in 1..Len(data.text) : data.text[i] = SP)

C16_WitnessAccepted ==
    /\ request # None
    /\ pc = "replied"
    /\ response.status = 200
    /\ Len(response.results) > 0
    /\ oracleCalls > 0

----------------------------------------------------------------------------
(* Properties of the EmbeddingManager                                      *)

EmbedCalled == embedCall # None /\ embedCall.op \in {"get_embedding", "get_embeddings_batch"}

\* C17: get_embedding and get_embeddings_batch succeed only if a fit has completed
\* before them; on an unfitted manager they raise ValueError and leave it unfitted;
\* a fit that fails leaves the fitted flag as it was.
C17_EmbedOnlyAfterFit ==
    /\ (EmbedCalled /\ embedCall.out.exc = "none")
           => \E i \in 1..Len(fitLog) : fitLog[i]
    /\ (EmbedCalled /\ ~embedCall.fittedBefore)
           => (embedCall.out.exc = "ValueError" /\ ~fitted)
    /\ (embedCall # None /\ embedCall.op = "fit" /\ embedCall.out.exc # "none")
           => fitted = embedCall.fittedBefore
    /\ fitted <=> \E i \in 1..Len(fitLog) : fitLog[i]

\* C17 witness: after one failed fit the manager is unfitted and get_embedding raised
C17_Witness ==
    /\ EmbedCalled
    /\ fitLog = <<FALSE>>
    /\ ~fitted
    /\ embedCall.out.exc = "ValueError"

\* C17 witness: a manager fitted earlier stays fitted through a failed fit
C17_WitnessRefit ==
    /\ embedCall # None
    /\ embedCall.op = "fit"
    /\ embedCall.out.exc # "none"
    /\ embedCall.fittedBefore
    /\ fitted

----------------------------------------------------------------------------
(* Properties of construction                                              *)

\* A search, a /rag-query request or a context lookup is under way or has answered
Serving ==
    \/ pc # "idle"
    \/ request # None
    \/ response # None
    \/ contextCall # None

\* C18: the reranker answers queries only after its build has completed, in the
\* order load corpus, fit, embed all documents, build the index; if any build step
\* fails the construction fails and the instance never serves a query.
C18_ServesOnlyAfterOrderedBuild ==
    /\ [](Serving => (phase = "built" /\ corpus # <<>> /\ fitted
                         /\ indexSize = Len(corpus)))
    /\ [](phase \in {"new", "loaded"} => (~fitted /\ indexSize = 0))
    /\ [](phase \in {"fitted", "embedded"} => (corpus # <<>> /\ fitted /\ indexSize = 0))
    /\ [][phase' # phase =>
            \/ <<phase, phase'>> \in {<<"new", "loaded">>, <<"loaded", "fitted">>,
                                      <<"fitted", "embedded">>, <<"embedded", "built">>}
            \/ phase # "built" /\ phase' = "failed"]_vars
    /\ [][phase # "failed"]_vars

\* C18 witness: a search has returned results from a built reranker
C18_Witness ==
    /\ phase = "built"
    /\ pc = "done"
    /\ results # <<>>
    /\ indexSize = Len(corpus)

\* C18 witness: the construction failed after the fit, at the embedding or index step
C18_WitnessFailed ==
    /\ phase = "failed"
    /\ fitted
    /\ indexSize = 0
    /\ ~Serving

----------------------------------------------------------------------------
(* Properties of the built state                                           *)

\* C19: after any sequence of search, search_with_context and get_chunk_context
\* calls the corpus, the fitted state and the index of a built reranker are what
\* they were at the end of the build.
C19_QueriesLeaveBuiltStateAlone ==
    /\ [](phase = "built" =>
             /\ corpus = load_corpus(env).value
             /\ fitted
             /\ indexSize = Len(corpus))
    /\ [][phase = "built" =>
             (corpus' = corpus /\ fitted' = fitted /\ indexSize' = indexSize)]_vars

\* C19 witness: a search with context has answered with annotated results and the
\* built state is the one the build left
C19_Witness ==
    /\ phase = "built"
    /\ pc = "responded"
    /\ results # <<>>
    /\ \A i \in 1..Len(results) : "corpus_index" \in DOMAIN results[i]
    /\ corpus = load_corpus(env).value
    /\ indexSize = Len(corpus)

\* C19 witness: a context lookup has answered with neighbours
C19_WitnessContext ==
    /\ phase = "built"
    /\ pc = "context"
    /\ contextCall # None
    /\ corpus = load_corpus(env).value

----------------------------------------------------------------------------
(* Properties of concurrent searches                                       *)

\* C20: in every interleaving of concurrent searches on one built reranker each call
\* returns the list it would return alone with the same index and oracle answers,
\* and nothing of another call's candidates, scores or metadata is in it.
C20_ConcurrentSearchesAreIsolated ==
    \A t \in Threads :
        inputs[t].pc = "done" =>
            /\ Len(inputs[t].answers) = Len(Retrieve(corpus, inputs[t].hit))
            /\ inputs[t].returned =
                   SearchAlone(corpus, inputs[t].query, inputs[t].k, inputs[t].hit,
                               inputs[t].answers)
            /\ \A i \in 1..Len(inputs[t].returned) :
                   \E j \in 1..Len(inputs[t].hit.I) :
                       /\ inputs[t].returned[i].corpus_index = inputs[t].hit.I[j]
                       /\ inputs[t].returned[i].tfidf_score = inputs[t].hit.D[j]
                       /\ inputs[t].returned[i].claude_score = inputs[t].answers[j]

\* C20 witness: two calls with different queries have both returned, with different
\* results, and one of them finished while the other was inside its scoring loop
C20_Witness ==
    /\ phase = "concurrent"
    /\ \A t \in Threads : inputs[t].pc = "done"
    /\ \E t \in Threads : inputs[t].overlapped
    /\ inputs[1].query # inputs[2].query
    /\ inputs[1].returned # inputs[2].returned
    /\ inputs[1].returned # <<>>

----------------------------------------------------------------------------
(* Properties of several rerankers                                         *)

\* C21: two reranker instances share no fitted state: a build step or a query of
\* one instance leaves the corpus, the fitted flag and the index of the other as
\* they were, and a built instance holds what its own build produced.
C21_InstancesShareNoState ==
    /\ [][\A j \in Instances :
              j # instances'.actor => instances'.objs[j] = instances.objs[j]]_vars
    /\ [](\A j \in Instances :
              instances.objs[j].phase = "built" =>
                  /\ instances.objs[j].corpus = load_corpus(env).value
                  /\ instances.objs[j].fitted
                  /\ instances.objs[j].indexSize = Len(instances.objs[j].corpus))

\* C21 witness: instance 1 is built and has answered a search while the fit of
\* instance 2 has failed and left it unfitted
C21_Witness ==
    /\ phase = "instances"
    /\ instances.objs[1].phase = "built"
    /\ instances.objs[2].phase = "failed"
    /\ ~instances.objs[2].fitted
    /\ instances.actor = 1
    /\ instances.out.op = "search"
    /\ instances.out.value # <<>>

----------------------------------------------------------------------------
(* Properties of the similarity function                                   *)

SimilarityDone == similarityCall # None /\ similarityCall.done

\* C22: similarity(a, b) = similarity(b, a) for all texts, and similarity(a, a) = 1
\* whenever a has at least one keyword.
C22_SimilaritySymmetricAndReflexive ==
    SimilarityDone =>
        /\ similarityCall.ab = similarityCall.ba
        /\ extract_keywords(similarityCall.text1) # {} => similarityCall.aa = Unit

\* C22 witness: two texts with different keyword sets that share a keyword, and a
\* similarity strictly between 0 and 1
C22_Witness ==
    /\ SimilarityDone
    /\ extract_keywords(similarityCall.text1) # extract_keywords(similarityCall.text2)
    /\ Cardinality(extract_keywords(similarityCall.text1)) #
           Cardinality(extract_keywords(similarityCall.text2))
    /\ similarityCall.ab > 0
    /\ similarityCall.ab < Unit
    /\ similarityCall.aa = Unit

\* C28: similarity(a, b) is in [0, 1], is 0 when either keyword set is empty, and
\* otherwise is min(1, J + B) with J the Jaccard index of the keyword sets and
\* B = min(0.3, 0.1 * m) for m preserve terms among the shared keywords.
C28_SimilarityIsBoostedJaccard ==
    SimilarityDone =>
        LET Ka == extract_keywords(similarityCall.text1)
            Kb == extract_keywords(similarityCall.text2)
            m == Cardinality((Ka \cap Kb) \cap preserve_terms)
            tenthsOfB == IF m < 3 THEN m ELSE 3
        IN /\ similarityCall.ab >= 0
           /\ similarityCall.ab <= Unit
           /\ (Ka = {} \/ Kb = {}) => similarityCall.ab = 0
           /\ (Ka # {} /\ Kb # {}) =>
                  \/ /\ similarityCall.ab = Unit
                     /\ 10 * Cardinality(Ka \cap Kb) + tenthsOfB * Cardinality(Ka \cup Kb)
                            >= 10 * Cardinality(Ka \cup Kb)
                  \/ /\ similarityCall.ab < Unit
                     /\ 10 * Cardinality(Ka \cup Kb) * similarityCall.ab =
                            Unit * (10 * Cardinality(Ka \cap Kb)
                                        + tenthsOfB * Cardinality(Ka \cup Kb))

\* C28 witness: four preserve terms are shared, the boost is capped at 0.3 and the
\* sum stays below 1
C28_Witness ==
    /\ SimilarityDone
    /\ Cardinality((extract_keywords(similarityCall.text1)
                        \cap extract_keywords(similarityCall.text2))
                       \cap preserve_terms) = 4
    /\ similarityCall.ab < Unit
    /\ similarityCall.ab > (3 * Unit) \div 10

----------------------------------------------------------------------------
(* Properties of the oracle requests of a search                           *)

ScoringCall == phase = "built" /\ pc = "scoring" /\ oracleCall # None

C25_WitnessAlone ==
    /\ ScoringCall
    /\ Len(retrieved) = 1
    /\ oracleCall.context_docs = <<>>
    /\ oracleCall.variant = "plain"

----------------------------------------------------------------------------
(* Properties of the parse of an oracle answer                             *)

\* analyze_relevance has returned from a call that did not raise
RelevanceParsed ==
    /\ phase = "oracle"
    /\ oracleCall.out.exc # "pending"
    /\ oracleCall.fn = "analyze_relevance"
    /\ ~oracleCall.plainResp.raises

\* C26: analyze_relevance parses an answer so: a labelled score gives that value
\* clamped to [0, 1]; without one, a first number within [0, 1] gives that number;
\* otherwise the result is 0.5.
C26_ParseLabelledThenFirstThenHalf ==
    RelevanceParsed =>
        LET labelled == oracleCall.plainResp.labelled
            first == oracleCall.plainResp.first
        IN /\ oracleCall.out.exc = "none"
           /\ labelled # NoNum =>
                  oracleCall.out.value =
                      (IF labelled > Unit THEN Unit ELSE IF labelled < 0 THEN 0 ELSE labelled)
           /\ (labelled = NoNum /\ first # NoNum /\ 0 <= first /\ first <= Unit) =>
                  oracleCall.out.value = first
           /\ (labelled = NoNum /\ (first = NoNum \/ first > Unit)) =>
                  oracleCall.out.value = Half

\* C26 witness: an answer without a label whose first number is above 1 gave 0.5
C26_Witness ==
    /\ RelevanceParsed
    /\ oracleCall.plainResp.labelled = NoNum
    /\ oracleCall.plainResp.first > Unit
    /\ oracleCall.out.value = Half

\* C26 witness: a labelled score above 1 gave 1 although the first number was 0.3
C26_WitnessLabelled ==
    /\ RelevanceParsed
    /\ oracleCall.plainResp.labelled > Unit
    /\ oracleCall.plainResp.first = (3 * Unit) \div 10
    /\ oracleCall.out.value = Unit

----------------------------------------------------------------------------
(* Properties of the vector index                                          *)

\* A search has asked the index for candidates and holds its answer
HoldsCandidates ==
    \/ phase = "built" /\ pc \in {"scoring", "done"}
    \/ phase = "legacy" /\ response # None

\* How many candidates the search in progress asked the index for
CandidatesAsked == IF phase = "legacy" THEN LegacyK ELSE 2 * k

\* C27: once built, the index holds one vector per corpus document; every
\* position a search gets from it lies in 0..corpusSize-1 and stands for the corpus
\* document at that position, and a search for n candidates gets
\* min(n, corpusSize) positions
C27_IndexPositionsAreCorpusDocuments ==
    /\ phase \in {"built", "legacy"} => indexSize = Len(corpus)
    /\ HoldsCandidates =>
          /\ Len(retrieved) = Min(CandidatesAsked, Len(corpus))
          /\ \A i \in 1..Len(retrieved) :
                /\ retrieved[i].index \in 0..(Len(corpus) - 1)
                /\ retrieved[i].doc = corpus[retrieved[i].index + 1]

----------------------------------------------------------------------------
(* Properties of the metadata of the results                               *)

\* The candidate at corpus position p of the search that has finished
CandidateAt(p) == CHOOSE c \in Range(retrieved) : c.index = p

\* C29: every result of a search carries chunk_id and source, and they are those
\* of the corpus document retrieved for it: the annotated entries stand one to one
\* for the retrieved positions, each with the title, content, index score,
\* chunk_id and source of the candidate at its position
C29_ResultsCarryMetadataOfTheirDocument ==
    (phase = "built" /\ pc = "done") =>
        /\ Len(enhanced) = Len(retrieved)
        /\ \A e \in Range(enhanced) :
              {"corpus_index", "chunk_id", "source"} \subseteq DOMAIN e
        /\ {e.corpus_index : e \in Range(enhanced)} = {c.index : c \in Range(retrieved)}
        /\ \A e \in Range(enhanced) :
              LET c == CandidateAt(e.corpus_index)
              IN /\ e.title = c.doc.title
                 /\ e.content = c.doc.content
                 /\ e.tfidf_score = c.tfidf_score
                 /\ e.chunk_id = c.doc.chunk_id
                 /\ e.source = c.doc.source
                 /\ c.doc = corpus[e.corpus_index + 1]
        /\ \A r \in Range(results) : r \in Range(enhanced)

\* A search has finished on a corpus that holds the same content under two
\* titles, and both documents were retrieved
C29_Witness ==
    /\ phase = "built"
    /\ pc = "done"
    /\ Len(results) >= 2
    /\ \E a, b \in Range(retrieved) :
          a.index # b.index /\ a.doc.content = b.doc.content

----------------------------------------------------------------------------
(* Properties of what chunking keeps                                       *)

\* load_mormon_corpus of corpus.py has chunked the verses of the data file
ChunkedVerses == PackageChunks # <<>>

\* The text of this verse stands whole in chunk i
WholeIn(i, verse) == Occurs(PackageChunks[i].content, verse)

\* The first chunk that holds the text of this verse whole (0: none does)
FirstChunkWith(verse) ==
    IF \E i \in 1..Len(PackageChunks) : WholeIn(i, verse)
    THEN CHOOSE i \in 1..Len(PackageChunks) :
             WholeIn(i, verse) /\ \A j \in 1..(i - 1) : ~WholeIn(j, verse)
    ELSE 0

ChunkIdsIncrease ==
    \A i \in 1..(Len(PackageChunks) - 1) :
        PackageChunks[i].chunk_id < PackageChunks[i + 1].chunk_id

\* C30 as stated: every verse stands whole in some chunk, the first chunks that
\* hold the verses whole follow the order of the verses, chunk_id increases along
\* the chunks, and there are no more chunks than verses
C30_FirstOccurrencesFollowSourceOrder ==
    ChunkedVerses =>
        /\ \A i \in 1..Len(FileVerses) : FirstChunkWith(FileVerses[i]) # 0
        /\ \A i, j \in 1..Len(FileVerses) :
              i < j => FirstChunkWith(FileVerses[i]) <= FirstChunkWith(FileVerses[j])
        /\ ChunkIdsIncrease
        /\ Len(PackageChunks) <= Len(FileVerses)

\* The ways of giving each verse a chunk, in source order and leaving no chunk
\* out: the first verse goes to chunk 1, and at each of the verses in starts the
\* next chunk begins
Placements ==
    {[i \in 1..Len(FileVerses) |-> 1 + Cardinality({s \in starts : s <= i})] :
        starts \in {t \in SUBSET (2..Len(FileVerses)) :
                       Cardinality(t) = Len(PackageChunks) - 1}}

\* C30 (amended): the verses can be given chunks in source order, every verse
\* standing whole in its chunk and every chunk getting a verse; chunk_id increases
\* along the chunks and there are no more chunks than verses.  (The first chunk
\* that holds a verse's text whole is then its own chunk or an earlier one.)
C30_VersesPlacedWholeInSourceOrder ==
    ChunkedVerses =>
        /\ \E p \in Placements : \A i \in 1..Len(FileVerses) : WholeIn(p[i], FileVerses[i])
        /\ ChunkIdsIncrease
        /\ Len(PackageChunks) <= Len(FileVerses)

\* Three verses went into several chunks and a later verse repeats an earlier
\* one, so that its text is first found before the verse between them
C30_Witness ==
    /\ ChunkedVerses
    /\ Len(FileVerses) = 3
    /\ Len(PackageChunks) >= 2
    /\ \E i, j \in 1..Len(FileVerses) :
          i < j /\ FirstChunkWith(FileVerses[j]) < FirstChunkWith(FileVerses[i])

\* Distinct verses, one chunk each or two in one: a verse carried whole into the
\* next chunk by the overlap is still first found in its own
C30_WitnessOverlap ==
    /\ ChunkedVerses
    /\ env.chunkOverlap > 0
    /\ \E i \in 1..Len(FileVerses) :
          /\ FirstChunkWith(FileVerses[i]) # 0
          /\ FirstChunkWith(FileVerses[i]) < Len(PackageChunks)
          /\ WholeIn(FirstChunkWith(FileVerses[i]) + 1, FileVerses[i])

====
